---- MODULE Spec2Model ----
(***************************************************************************)
(* AirSense: the POST /api/analyze pipeline of src/backend/server.js.      *)
(* One request is followed from validation to its response; every outbound *)
(* call (geocoder, air-quality providers, weather, the two python child    *)
(* processes, the generative model) answers with an outcome drawn from a   *)
(* small set.  JavaScript values are modelled with their kind: undefined / *)
(* null is the empty tuple, a present value x is the one-element tuple     *)
(* <<x>>; strings that the code inspects are sequences of characters.      *)
(***************************************************************************)
EXTENDS Integers, Sequences, FiniteSets, TLC

VARIABLES keys, body, pc, coords, aqiData, weather, context, child,
          pythonAnalysis, pythonOptimization, interventions, res, obs, calls,
          attempt, delay, waits, answers, parked

vars == <<keys, body, pc, coords, aqiData, weather, context, child,
          pythonAnalysis, pythonOptimization, interventions, res, obs, calls,
          attempt, delay, waits, answers, parked>>

\* the state of the retry loop of the standalone analysis server
loop == <<attempt, delay, waits, answers>>

----------------------------------------------------------------------------
(* JavaScript values *)

None == <<>>
Some(x) == <<x>>
IsSome(o) == o # <<>>
Val(o) == o[1]

\* the element of a one-element set; The({e(x) : x \in {v}}) is e for the
\* constant x = v, with v computed once
The(S) == CHOOSE x \in S : TRUE

\* a number that may be NaN: <<n>> is the number n, NaN is a two-element tuple
NaN == <<0, 0>>
IsNumber(o) == Len(o) = 1

\* a || b on an optional number: 0 and undefined are falsy
OrElse(o, d) == IF IsSome(o) /\ Val(o) # 0 THEN o ELSE d

Undefined == [t |-> "undefined"]
Num(n) == [t |-> "number", v |-> n]
Str(s) == [t |-> "string", v |-> s]

\* a test that takes only an absent value for missing
Falsy_absentOnly(v) == v.t = "undefined"

\* !v for the request body's fields
Falsy(v) ==
    \/ v.t = "undefined"
    \/ v.t = "number" /\ v.v = 0
    \/ v.t = "string" /\ v.v = <<>>

----------------------------------------------------------------------------
(* Strings as character sequences *)

Digit == {"0", "1", "2", "3", "4", "5", "6", "7", "8", "9"}
Whitespace == {" ", "\n", "\t", "\r"}

DigitVal(c) ==
    CASE c = "0" -> 0 [] c = "1" -> 1 [] c = "2" -> 2 [] c = "3" -> 3
      [] c = "4" -> 4 [] c = "5" -> 5 [] c = "6" -> 6 [] c = "7" -> 7
      [] c = "8" -> 8 [] c = "9" -> 9

DigitChar(d) ==
    CASE d = 0 -> "0" [] d = 1 -> "1" [] d = 2 -> "2" [] d = 3 -> "3"
      [] d = 4 -> "4" [] d = 5 -> "5" [] d = 6 -> "6" [] d = 7 -> "7"
      [] d = 8 -> "8" [] d = 9 -> "9"

\* String.prototype.includes
Includes(s, kw) ==
    \E i \in 1..(Len(s) - Len(kw) + 1) : SubSeq(s, i, i + Len(kw) - 1) = kw

\* the elements of s at the indexes in set keep, in order
IsKept(pair) == pair[2]
SelectIndexes(s, keep) ==
    The({[k \in 1..Len(kept) |-> kept[k][1]] :
            kept \in {SelectSeq([i \in 1..Len(s) |-> <<s[i], i \in keep>>], IsKept)}})

\* the longest prefix of s made of characters of set cs
Run(s, cs) ==
    IF \A i \in 1..Len(s) : s[i] \in cs THEN s
    ELSE SubSeq(s, 1, (CHOOSE i \in 1..Len(s) :
                          s[i] \notin cs /\ \A j \in 1..(i - 1) : s[j] \in cs) - 1)

\* s without its leading whitespace
SkipWs(s) == SubSeq(s, Len(Run(s, Whitespace)) + 1, Len(s))

RECURSIVE DecimalValue(_, _)
DecimalValue(ds, acc) ==
    IF ds = <<>> THEN acc ELSE DecimalValue(Tail(ds), 10 * acc + DigitVal(Head(ds)))

RECURSIVE NatToString(_)
NatToString(n) ==
    IF n < 10 THEN <<DigitChar(n)>> ELSE NatToString(n \div 10) \o <<DigitChar(n % 10)>>

\* String(n) for an integer
NumberToString(n) == IF n < 0 THEN <<"-">> \o NatToString(-n) ELSE NatToString(n)

\* parseInt on a string: leading whitespace, a sign, then decimal digits up to
\* the first other character; no digit at all gives NaN
parseIntString(s) ==
    LET t  == SkipWs(s)
        sg == t # <<>> /\ Head(t) \in {"-", "+"}
        u  == IF sg THEN Tail(t) ELSE t
        ds == Run(u, Digit)
    IN  IF ds = <<>> THEN NaN
        ELSE IF sg /\ Head(t) = "-" THEN Some(0 - DecimalValue(ds, 0))
        ELSE Some(DecimalValue(ds, 0))

\* parseInt(v): the argument is converted to a string first
parseInt(v) ==
    CASE v.t = "number" -> parseIntString(NumberToString(v.v))
      [] v.t = "string" -> parseIntString(v.v)
      [] OTHER          -> NaN

\* s.replace(/,/g, '')
StripCommas(s) ==
    LET NotComma(c) == c # ","
    IN  SelectSeq(s, NotComma)

\* s.match(/Rupee([\d,]+)/)[1]: the first rupee sign that is followed by a
\* digit or a comma, and the greedy run after it; None when nothing matches
MatchRupeeAmount(s) ==
    LET Starts(i) == s[i] = "Rupee" /\ Run(SubSeq(s, i + 1, Len(s)), Digit \cup {","}) # <<>>
    IN  IF \E i \in 1..Len(s) : Starts(i)
        THEN LET first == CHOOSE i \in 1..Len(s) : Starts(i) /\ \A j \in 1..(i - 1) : ~Starts(j)
             IN  Some(Run(SubSeq(s, first + 1, Len(s)), Digit \cup {","}))
        ELSE None

----------------------------------------------------------------------------
(* Air-quality source chain *)

\* the table with its last entry off by one row
aqiMapping_lastTierLow == (1 :> 50) @@ (2 :> 100) @@ (3 :> 150) @@ (4 :> 200) @@ (5 :> 200)

aqiMapping == (1 :> 50) @@ (2 :> 100) @@ (3 :> 150) @@ (4 :> 200) @@ (5 :> 300)

\* the estimate with the index of tier 2 and the tag of the secondary provider
EstimatedReading_asSecondary ==
    [aqi |-> Some(100), main_pollutant |-> None, city |-> None,
     pollutants |-> None, source |-> "OpenWeather", accuracy |-> "Low"]

EstimatedReading ==
    [aqi |-> Some(150), main_pollutant |-> None, city |-> None,
     pollutants |-> None, source |-> "Estimated", accuracy |-> "Low"]

Returned(v) == [ok |-> TRUE, value |-> v]
Thrown(msg) == [ok |-> FALSE, message |-> msg]

msgTypeError ==
    <<"C","a","n","n","o","t"," ","r","e","a","d"," ","p","r","o","p","e","r","t","i","e","s"," ","o","f"," ","u","n","d","e","f","i","n","e","d">>
msgNetworkError == <<"N","e","t","w","o","r","k"," ","E","r","r","o","r">>
msgStatus(st) ==
    <<"R","e","q","u","e","s","t"," ","f","a","i","l","e","d"," ","w","i","t","h"," ","s","t","a","t","u","s"," ","c","o","d","e"," ">> \o NumberToString(st)

\* outcome of an axios call: a network error or an error status, each with the
\* message of the error axios throws, or a response with its payload
NetworkErrorWith(msg) == [kind |-> "network", message |-> msg]
NetworkError == NetworkErrorWith(msgNetworkError)
HttpError(st) == [kind |-> "http", status |-> st, message |-> msgStatus(st)]
Ok(data) == [kind |-> "ok", data |-> data]

\* error.message of a failed axios call
AxiosMessage(outcome) == outcome.message

\* the try block of getIQAirData after the key check: reading a property of
\* an undefined level of the payload is a TypeError
iqairTry(outcome) ==
    IF outcome.kind # "ok" THEN Thrown(AxiosMessage(outcome))
    ELSE IF outcome.data.data = None THEN Thrown(msgTypeError)
    ELSE IF Val(outcome.data.data).current = None THEN Thrown(msgTypeError)
    ELSE IF Val(Val(outcome.data.data).current).pollution = None THEN Thrown(msgTypeError)
    ELSE LET data == Val(outcome.data.data)
             pollution == Val(Val(data.current).pollution)
         IN  Returned(Some([aqi |-> pollution.aqius,
                            main_pollutant |-> pollution.mainus,
                            city |-> data.city,
                            pollutants |-> Some([pm25 |-> OrElse(pollution.p2, None),
                                                 pm10 |-> OrElse(pollution.p1, None),
                                                 o3   |-> OrElse(pollution.o3, None),
                                                 no2  |-> OrElse(pollution.n2, None),
                                                 so2  |-> OrElse(pollution.s2, None),
                                                 co   |-> OrElse(pollution.co, None)]),
                            source |-> "IQAir",
                            accuracy |-> "High"]))

\* getIQAirData without its catch: a throw of the try block reaches the caller
getIQAirData_uncaught(hasKey, outcome) ==
    IF ~hasKey THEN Returned(None) ELSE iqairTry(outcome)

\* getIQAirData whose reading is dropped: the chain always goes on to the
\* secondary provider
getIQAirData_dropped(hasKey, outcome) == Returned(None)

\* getIQAirData: null without a key, and the catch turns every throw into null
getIQAirData(hasKey, outcome) ==
    IF ~hasKey THEN Returned(None)
    ELSE IF iqairTry(outcome).ok THEN iqairTry(outcome)
    ELSE Returned(None)

\* the try block of getOpenWeatherAQI after the key check
openWeatherTry(outcome) ==
    IF outcome.kind # "ok" THEN Thrown(AxiosMessage(outcome))
    ELSE IF outcome.data.list = None THEN Thrown(msgTypeError)
    ELSE IF Val(outcome.data.list) = <<>> THEN Thrown(msgTypeError)
    ELSE LET data == Val(outcome.data.list)[1]
         IN  IF data.main = None \/ data.components = None THEN Thrown(msgTypeError)
             ELSE LET t == Val(data.main).aqi
                      c == Val(data.components)
                      mapped == IF IsSome(t) /\ Val(t) \in DOMAIN aqiMapping
                                THEN Some(aqiMapping[Val(t)]) ELSE None
                  IN  Returned(Some([aqi |-> OrElse(mapped, Some(150)),
                                     main_pollutant |-> None,
                                     city |-> None,
                                     pollutants |-> Some([pm25 |-> OrElse(c.pm2_5, None),
                                                          pm10 |-> OrElse(c.pm10, None),
                                                          o3   |-> OrElse(c.o3, None),
                                                          no2  |-> OrElse(c.no2, None),
                                                          so2  |-> OrElse(c.so2, None),
                                                          co   |-> OrElse(c.co, None)]),
                                     source |-> "OpenWeather",
                                     accuracy |-> "Moderate"]))

\* getOpenWeatherAQI
getOpenWeatherAQI(hasKey, outcome) ==
    IF ~hasKey THEN Returned(None)
    ELSE IF openWeatherTry(outcome).ok THEN openWeatherTry(outcome)
    ELSE Returned(None)

----------------------------------------------------------------------------
(* Weather *)

\* Math.round of a value given in tenths; Math.round(undefined) is NaN
RoundTenths(o) == IF o = None THEN NaN ELSE Some((Val(o) + 5) \div 10)

\* Math.round(speed * 3.6) of a speed given in tenths of m/s
RoundKmh(o) == IF o = None THEN NaN ELSE Some((36 * Val(o) + 50) \div 100)

getDefaultWeather ==
    [temperature |-> Some(28), feels_like |-> Some(30), humidity |-> Some(55),
     wind_speed |-> Some(8), pressure |-> Some(1013), description |-> Some("clear sky"),
     visibility |-> Some(10000), clouds |-> Some(20)]

\* the try block of getWeatherData after the key check: reading a property
\* of an undefined level (main, wind, weather[0], clouds) is a TypeError
weatherTry(outcome) ==
    IF outcome.kind # "ok" THEN Thrown(AxiosMessage(outcome))
    ELSE LET data == outcome.data
         IN  IF \/ data.main = None
                \/ data.wind = None
                \/ data.weather = None
                \/ Val(data.weather) = <<>>
                \/ data.clouds = None
             THEN Thrown(msgTypeError)
             ELSE Returned([temperature |-> RoundTenths(Val(data.main).temp),
                            feels_like  |-> RoundTenths(Val(data.main).feels_like),
                            humidity    |-> Val(data.main).humidity,
                            wind_speed  |-> RoundKmh(Val(data.wind).speed),
                            pressure    |-> Val(data.main).pressure,
                            description |-> Val(data.weather)[1].description,
                            visibility  |-> data.visibility,
                            clouds      |-> Val(data.clouds).all])

\* getWeatherData without its catch
getWeatherData_uncaught(hasKey, outcome) ==
    IF ~hasKey THEN Returned(getDefaultWeather) ELSE weatherTry(outcome)

\* getWeatherData: the default without a key, and the catch turns every throw
\* into the default
getWeatherData(hasKey, outcome) ==
    IF ~hasKey THEN Returned(getDefaultWeather)
    ELSE IF weatherTry(outcome).ok THEN weatherTry(outcome)
    ELSE Returned(getDefaultWeather)

----------------------------------------------------------------------------
(* Geocoder *)

txt_not_found == <<"n","o","t"," ","f","o","u","n","d">>
txt_Location_not_found == <<"L","o","c","a","t","i","o","n"," ","n","o","t"," ","f","o","u","n","d">>
txt_Unable_to_verify_location == <<"U","n","a","b","l","e"," ","t","o"," ","v","e","r","i","f","y"," ","l","o","c","a","t","i","o","n">>

msgNotConfigured ==
    <<"W","e","a","t","h","e","r"," ","A","P","I"," ","n","o","t"," ","c","o","n","f","i","g","u","r","e","d","."," ","P","l","e","a","s","e"," ","a","d","d"," ","O","P","E","N","W","E","A","T","H","E","R","_","A","P","I","_","K","E","Y"," ","t","o"," ","y","o","u","r"," ",".","e","n","v"," ","f","i","l","e">>
msgUnableToVerify ==
    <<"U","n","a","b","l","e"," ","t","o"," ","v","e","r","i","f","y"," ","l","o","c","a","t","i","o","n","."," ","P","l","e","a","s","e"," ","c","h","e","c","k"," ","y","o","u","r"," ","i","n","t","e","r","n","e","t"," ","c","o","n","n","e","c","t","i","o","n"," ","a","n","d"," ","t","r","y"," ","a","g","a","i","n",".">>
msgNotFound(location) ==
    <<"L","o","c","a","t","i","o","n"," ","\"">> \o location
      \o <<"\""," ","n","o","t"," ","f","o","u","n","d","."," ","P","l","e","a","s","e"," ","e","n","t","e","r"," ","a"," ","v","a","l","i","d"," ","c","i","t","y"," ","n","a","m","e"," ","o","r"," ","a","d","d","r","e","s","s",".">>

\* getCoordinates: what the try block throws or returns, then the catch
getCoordinates(location, hasKey, outcome) ==
    LET tried ==
            IF ~hasKey THEN Thrown(msgNotConfigured)
            ELSE IF outcome.kind # "ok" THEN Thrown(AxiosMessage(outcome))
            ELSE IF outcome.data = None \/ Val(outcome.data) = <<>>
                 THEN Thrown(msgNotFound(location))
            ELSE LET place == Val(outcome.data)[1]
                 IN  Returned([lat |-> place.lat, lon |-> place.lon, city |-> place.name,
                               state |-> place.state, country |-> place.country])
    IN  IF tried.ok THEN tried
        ELSE IF Includes(tried.message, txt_not_found) THEN tried
        ELSE Thrown(msgUnableToVerify)

----------------------------------------------------------------------------
(* Context classifier *)

UpperToLower ==
    ("A" :> "a") @@ ("B" :> "b") @@ ("C" :> "c") @@ ("D" :> "d") @@ ("E" :> "e")
    @@ ("F" :> "f") @@ ("G" :> "g") @@ ("H" :> "h") @@ ("I" :> "i") @@ ("J" :> "j")
    @@ ("K" :> "k") @@ ("L" :> "l") @@ ("M" :> "m") @@ ("N" :> "n") @@ ("O" :> "o")
    @@ ("P" :> "p") @@ ("Q" :> "q") @@ ("R" :> "r") @@ ("S" :> "s") @@ ("T" :> "t")
    @@ ("U" :> "u") @@ ("V" :> "v") @@ ("W" :> "w") @@ ("X" :> "x") @@ ("Y" :> "y")
    @@ ("Z" :> "z")

\* no lowercasing at all
toLowerCase_identity(s) == s

toLowerCase(s) ==
    [i \in 1..Len(s) |-> IF s[i] \in DOMAIN UpperToLower THEN UpperToLower[s[i]] ELSE s[i]]

kw_connaught == <<"c","o","n","n","a","u","g","h","t">>
kw_commercial == <<"c","o","m","m","e","r","c","i","a","l">>
kw_market == <<"m","a","r","k","e","t">>
kw_industrial == <<"i","n","d","u","s","t","r","i","a","l">>
kw_factory == <<"f","a","c","t","o","r","y">>
\* a keyword list in which 'pune' stands for 'park'
kw_park_pune == <<"p","u","n","e">>

kw_park == <<"p","a","r","k">>
kw_garden == <<"g","a","r","d","e","n">>
kw_delhi == <<"d","e","l","h","i">>
kw_mumbai == <<"m","u","m","b","a","i">>
kw_bangalore == <<"b","a","n","g","a","l","o","r","e">>
kw_gurgaon == <<"g","u","r","g","a","o","n">>

\* the list without its first keyword
highTraffic_withoutConnaught ==
    {<<"r","a","j","p","a","t","h">>,
     <<"r","i","n","g"," ","r","o","a","d">>,
     <<"h","i","g","h","w","a","y">>,
     <<"c","e","n","t","r","a","l">>}

highTraffic ==
    {<<"c","o","n","n","a","u","g","h","t">>,
     <<"r","a","j","p","a","t","h">>,
     <<"r","i","n","g"," ","r","o","a","d">>,
     <<"h","i","g","h","w","a","y">>,
     <<"c","e","n","t","r","a","l">>}

analyzeLocationContext(location) ==
    LET loc == toLowerCase(location)
        areaType ==
            IF Includes(loc, kw_connaught) \/ Includes(loc, kw_commercial) \/ Includes(loc, kw_market)
            THEN "Commercial Hub"
            ELSE IF Includes(loc, kw_industrial) \/ Includes(loc, kw_factory)
            THEN "Industrial Zone"
            ELSE IF Includes(loc, kw_park) \/ Includes(loc, kw_garden)
            THEN "Green Zone"
            ELSE "Urban Residential"
        trafficDensity ==
            IF \E keyword \in highTraffic : Includes(loc, keyword)
            THEN "Very High"
            ELSE IF Includes(loc, kw_delhi) \/ Includes(loc, kw_mumbai) \/ Includes(loc, kw_bangalore)
            THEN "High"
            ELSE "Moderate"
        industrialActivity ==
            IF Includes(loc, kw_industrial) \/ Includes(loc, kw_factory)
            THEN "High"
            ELSE IF Includes(loc, kw_delhi) \/ Includes(loc, kw_gurgaon)
            THEN "Moderate"
            ELSE "Low"
    IN  [area_type |-> areaType,
         traffic_density |-> trafficDensity,
         industrial_activity |-> industrialActivity]

----------------------------------------------------------------------------
(* Static fallback recommendations *)

\* a > n and a <= b on numbers that may be undefined or NaN (then false)
Gt(a, n) == IsNumber(a) /\ Val(a) > n
Leq(a, b) == IsNumber(a) /\ IsNumber(b) /\ Val(a) <= Val(b)

\* a JavaScript array
Arr(s) == [t |-> "arr", v |-> s]

\* lines 490-563; a title is the sequence of the pieces of its template
recommendations(aqi, pollutant, ctx) ==
    <<[title |-> <<"Advanced ", pollutant, " Air Filtration System">>,
       priority |-> IF Gt(aqi, 150) THEN "High" ELSE "Medium",
       estimated_cost |-> <<"Rupee","2",",","5","0",",","0","0","0"," ","-"," ","Rupee","6",",","0","0",",","0","0","0">>,
       expected_aqi_improvement |-> IF Gt(aqi, 200) THEN "35-50 points" ELSE "25-40 points",
       targets_pollutant |-> pollutant,
       intervention_type |-> "Technology"],
      [title |-> <<"Smart Traffic Flow Optimization System">>,
       priority |-> IF ctx.traffic_density \in {"Very High", "High"} THEN "High" ELSE "Medium",
       estimated_cost |-> <<"Rupee","3",",","0","0",",","0","0","0"," ","-"," ","Rupee","8",",","0","0",",","0","0","0">>,
       expected_aqi_improvement |-> "20-35 points",
       targets_pollutant |-> "NO2",
       intervention_type |-> "Infrastructure"],
      [title |-> <<"Urban Green Buffer Zone Development">>,
       priority |-> "Medium",
       estimated_cost |-> <<"Rupee","1",",","5","0",",","0","0","0"," ","-"," ","Rupee","4",",","0","0",",","0","0","0">>,
       expected_aqi_improvement |-> "15-25 points",
       targets_pollutant |-> "PM10",
       intervention_type |-> "Infrastructure"],
      [title |-> <<"Comprehensive Dust Suppression Program">>,
       priority |-> IF Gt(aqi, 150) THEN "High" ELSE "Low",
       estimated_cost |-> <<"Rupee","1",",","0","0",",","0","0","0"," ","-"," ","Rupee","3",",","0","0",",","0","0","0">>,
       expected_aqi_improvement |-> "18-30 points",
       targets_pollutant |-> "PM2.5",
       intervention_type |-> "Emergency"],
      [title |-> <<"Community Air Quality Awareness and Action Program">>,
       priority |-> "Low",
       estimated_cost |-> <<"Rupee","7","5",",","0","0","0"," ","-"," ","Rupee","2",",","0","0",",","0","0","0">>,
       expected_aqi_improvement |-> "10-15 points",
       targets_pollutant |-> "Multiple",
       intervention_type |-> "Community"],
      [title |-> <<"Industrial Emission Monitoring and Control System">>,
       priority |-> IF ctx.industrial_activity = "High" THEN "High" ELSE "Low",
       estimated_cost |-> <<"Rupee","4",",","0","0",",","0","0","0"," ","-"," ","Rupee","1","0",",","0","0",",","0","0","0">>,
       expected_aqi_improvement |-> "25-45 points",
       targets_pollutant |-> "SO2",
       intervention_type |-> "Policy"]>>

\* parseInt(r.estimated_cost.match(/Rupee([\d,]+)/)[1].replace(/,/g, ''))
minCost(r) == parseIntString(StripCommas(Val(MatchRupeeAmount(r.estimated_cost))))

\* the fallback with the filter applied from four affordable entries on
getFallbackRecommendations_fromFour(aqi, budget, mainPollutant, ctx) ==
    LET pollutant == IF IsSome(mainPollutant) THEN Val(mainPollutant) ELSE "PM2.5"
        budgetNum == parseInt(budget)
        recs == recommendations(aqi, pollutant, ctx)
        IsAffordable(r) == Leq(minCost(r), budgetNum)
        affordable == SelectSeq(recs, IsAffordable)
    IN  IF Len(affordable) >= 4 THEN Arr(affordable) ELSE Arr(recs)

getFallbackRecommendations(aqi, budget, mainPollutant, ctx) ==
    LET pollutant == IF IsSome(mainPollutant) THEN Val(mainPollutant) ELSE "PM2.5"
        budgetNum == parseInt(budget)
        recs == recommendations(aqi, pollutant, ctx)
        IsAffordable(r) == Leq(minCost(r), budgetNum)
        affordable == SelectSeq(recs, IsAffordable)
    IN  IF Len(affordable) >= 5 THEN Arr(affordable) ELSE Arr(recs)

----------------------------------------------------------------------------
(* Model text: a sequence of characters in which a word, a number and the  *)
(* three-backtick fence each count as one character.                       *)

\* the code fence, three backticks
Fence == "(fence)"
NumberWords == {"0", "5", "7"}
LiteralWords == {"true", "false", "null"}
ControlChars == {"\n", "\t", "\r"}

\* String.prototype.trim
trim(s) ==
    IF \A i \in 1..Len(s) : s[i] \in Whitespace THEN <<>>
    ELSE LET last == CHOOSE i \in 1..Len(s) :
                         s[i] \notin Whitespace /\ \A j \in (i + 1)..Len(s) : s[j] \in Whitespace
         IN  The({SkipWs(front) : front \in {SubSeq(s, 1, last)}})

\* position i of s lies in the whitespace that directly follows one of the
\* positions in set opens
InWhitespaceAfter(s, i, opens) ==
    /\ s[i] \in Whitespace
    /\ \E j \in opens : j < i /\ \A k \in (j + 1)..i : s[k] \in Whitespace

\* s.replace(/(fence)json\s*/g, '')
StripJsonFences(s) ==
    LET IsFence(i) == s[i] = Fence /\ i < Len(s) /\ s[i + 1] = "json"
    IN  The({SelectIndexes(s, {i \in 1..Len(s) :
                                  ~IsFence(i) /\ i \notin json /\ ~InWhitespaceAfter(s, i, json)}) :
                json \in {{i \in 2..Len(s) : IsFence(i - 1)}}})

\* s.replace(/(fence)\s*/g, '')
StripFences(s) ==
    The({SelectIndexes(s, {i \in 1..Len(s) : i \notin fences /\ ~InWhitespaceAfter(s, i, fences)}) :
            fences \in {{i \in 1..Len(s) : s[i] = Fence}}})

\* s.indexOf(c) and s.lastIndexOf(c), 0-based, -1 when c does not occur
indexOf(s, c) ==
    IF \E i \in 1..Len(s) : s[i] = c
    THEN (CHOOSE i \in 1..Len(s) : s[i] = c /\ \A j \in 1..(i - 1) : s[j] # c) - 1
    ELSE -1

lastIndexOf(s, c) ==
    IF \E i \in 1..Len(s) : s[i] = c
    THEN (CHOOSE i \in 1..Len(s) : s[i] = c /\ \A j \in (i + 1)..Len(s) : s[j] # c) - 1
    ELSE -1

Clamp(i, n) == IF i < 0 THEN 0 ELSE IF i > n THEN n ELSE i

\* s.substring(a, b): the arguments are clamped and swapped when a > b
substring(s, a, b) ==
    LET x == Clamp(a, Len(s))
        y == Clamp(b, Len(s))
    IN  IF x <= y THEN SubSeq(s, x + 1, y) ELSE SubSeq(s, y + 1, x)

\* s.replace(/,\s*C/g, 'C') for a closing character C: a comma and the
\* whitespace after it go when the next other character is C
RemoveCommaBefore(s, closer) ==
    LET ClosesAfter(i) ==
            \E m \in (i + 1)..Len(s) :
                s[m] = closer /\ \A k \in (i + 1)..(m - 1) : s[k] \in Whitespace
    IN  The({SelectIndexes(s, {i \in 1..Len(s) :
                                  ~(ClosesAfter(i) /\ (i \in commas \/ InWhitespaceAfter(s, i, commas)))}) :
                commas \in {{i \in 1..Len(s) : s[i] = ","}}})

\* s.replace(/\n/g, ' ').replace(/\r/g, '').replace(/\t/g, ' ')
ReplaceControls(s) ==
    LET kept == SelectIndexes(s, {i \in 1..Len(s) : s[i] # "\r"})
    IN  The({[i \in 1..Len(k) |-> IF k[i] \in {"\n", "\t"} THEN " " ELSE k[i]] : k \in {kept}})

\* s.replace(/\s+/g, ' ')
CollapseWhitespace(s) ==
    LET kept == SelectIndexes(s, {i \in 1..Len(s) :
                                     s[i] \notin Whitespace \/ i = 1 \/ s[i - 1] \notin Whitespace})
    IN  The({[i \in 1..Len(k) |-> IF k[i] \in Whitespace THEN " " ELSE k[i]] : k \in {kept}})

----------------------------------------------------------------------------
(* JSON.parse on such a text.  A parsed value is [t, v]: t is one of       *)
(* "obj" (v: members [k, val]), "arr" (v: elements), "str" (v: the         *)
(* characters), "num" and "lit" (v: the one word).                         *)

ParseFail == [ok |-> FALSE]
Parsed(val, rest) == [ok |-> TRUE, val |-> val, rest |-> rest]

\* the characters of a string literal up to its closing quote; a raw control
\* character or the end of the text before the quote is a syntax error
ParseStringBody(s) ==
    The({IF closing = -1 \/ \E i \in 1..closing : s[i] \in ControlChars THEN ParseFail
         ELSE Parsed([t |-> "str", v |-> SubSeq(s, 1, closing)], SubSeq(s, closing + 2, Len(s))) :
            closing \in {indexOf(s, "\"")}})

RECURSIVE ParseValue(_)
RECURSIVE ParseElements(_, _)
RECURSIVE ParseMembers(_, _)
RECURSIVE ValueAt(_)
RECURSIVE AfterElement(_, _, _)
RECURSIVE AfterMember(_, _, _, _)
RECURSIVE AfterName(_, _, _)
RECURSIVE MemberAt(_, _)

\* a value at the head of s, s without leading whitespace
ValueAt(s) ==
    IF s = <<>> THEN ParseFail
    ELSE IF Head(s) = "{" THEN
        The({IF u # <<>> /\ Head(u) = "}" THEN Parsed([t |-> "obj", v |-> <<>>], Tail(u))
             ELSE ParseMembers(u, <<>>) : u \in {SkipWs(Tail(s))}})
    ELSE IF Head(s) = "[" THEN
        The({IF u # <<>> /\ Head(u) = "]" THEN Parsed([t |-> "arr", v |-> <<>>], Tail(u))
             ELSE ParseElements(u, <<>>) : u \in {SkipWs(Tail(s))}})
    ELSE IF Head(s) = "\"" THEN ParseStringBody(Tail(s))
    ELSE IF Head(s) \in NumberWords THEN Parsed([t |-> "num", v |-> <<Head(s)>>], Tail(s))
    ELSE IF Head(s) \in LiteralWords THEN Parsed([t |-> "lit", v |-> <<Head(s)>>], Tail(s))
    ELSE ParseFail

ParseValue(s0) == The({ValueAt(s) : s \in {SkipWs(s0)}})

\* after the element e of an array, u being the text after it: a comma and
\* the next element, or the end of the array
AfterElement(e, u, acc) ==
    IF u = <<>> THEN ParseFail
    ELSE IF Head(u) = "," THEN The({ParseElements(w, more) : w \in {Tail(u)}, more \in {Append(acc, e.val)}})
    ELSE IF Head(u) = "]" THEN Parsed([t |-> "arr", v |-> Append(acc, e.val)], Tail(u))
    ELSE ParseFail

ParseElements(s, acc) ==
    The({IF ~e.ok THEN ParseFail
         ELSE The({AfterElement(e, u, acc) : u \in {SkipWs(e.rest)}}) :
            e \in {ParseValue(s)}})

\* after the member k : e of an object, u being the text after it: a comma
\* and the next member, or the end of the object
AfterMember(k, e, u, acc) ==
    IF u = <<>> THEN ParseFail
    ELSE The({IF Head(u) = "," THEN The({ParseMembers(w, m) : w \in {Tail(u)}})
              ELSE IF Head(u) = "}" THEN Parsed([t |-> "obj", v |-> m], Tail(u))
              ELSE ParseFail :
                 m \in {Append(acc, [k |-> k.val.v, val |-> e.val])}})

\* after the name k of a member, c being the text after it: the colon and
\* the value
AfterName(k, c, acc) ==
    IF c = <<>> \/ Head(c) # ":" THEN ParseFail
    ELSE The({IF ~e.ok THEN ParseFail
              ELSE The({AfterMember(k, e, u, acc) : u \in {SkipWs(e.rest)}}) :
                 e \in {ParseValue(Tail(c))}})

\* the member at the head of s, s without leading whitespace
MemberAt(s, acc) ==
    IF s = <<>> \/ Head(s) # "\"" THEN ParseFail
    ELSE The({IF ~k.ok THEN ParseFail
              ELSE The({AfterName(k, c, acc) : c \in {SkipWs(k.rest)}}) :
                 k \in {ParseStringBody(Tail(s))}})

ParseMembers(s0, acc) == The({MemberAt(s, acc) : s \in {SkipWs(s0)}})

\* JSON.parse(text): one value and nothing but whitespace after it
JSONparse(text) ==
    The({IF r.ok /\ SkipWs(r.rest) = <<>> THEN Some(r.val) ELSE None : r \in {ParseValue(text)}})

\* o[key] for a parsed object (the last member of that name), None if absent
\* or if o is not an object
Get(o, key) ==
    IF o.t = "obj" /\ \E i \in 1..Len(o.v) : o.v[i].k = key
    THEN Some(o.v[CHOOSE i \in 1..Len(o.v) :
                     o.v[i].k = key /\ \A j \in (i + 1)..Len(o.v) : o.v[j].k # key].val)
    ELSE None

\* !x for an optional parsed value
IsFalsyValue(o) ==
    \/ o = None
    \/ Val(o).t = "lit" /\ Val(o).v \in {<<"null">>, <<"false">>}
    \/ Val(o).t = "num" /\ Val(o).v = <<"0">>
    \/ Val(o).t = "str" /\ Val(o).v = <<>>

\* x.length === 0
HasLengthZero(x) ==
    \/ x.t = "arr" /\ x.v = <<>>
    \/ x.t = "obj" /\ Get(x, <<"length">>) # None
         /\ Val(Get(x, <<"length">>)).t = "num" /\ Val(Get(x, <<"length">>)).v = <<"0">>

----------------------------------------------------------------------------
(* Recommendation generator *)

msgBlocked == <<"C","o","n","t","e","n","t"," ","b","l","o","c","k","e","d"," ","b","y"," ","s","a","f","e","t","y"," ","f","i","l","t","e","r","s">>
msgEmpty == <<"E","m","p","t","y"," ","r","e","s","p","o","n","s","e"," ","f","r","o","m"," ","G","e","m","i","n","i">>
msgNoJson == <<"N","o"," ","v","a","l","i","d"," ","J","S","O","N"," ","f","o","u","n","d"," ","i","n"," ","r","e","s","p","o","n","s","e">>
msgSyntaxError == <<"U","n","e","x","p","e","c","t","e","d"," ","t","o","k","e","n"," ","i","n"," ","J","S","O","N">>
msgNoInterventions == <<"N","o"," ","i","n","t","e","r","v","e","n","t","i","o","n","s"," ","g","e","n","e","r","a","t","e","d">>

\* a string that is present and not empty
IsTruthyText(o) == o # None /\ Val(o) # <<>>

\* a || b || c on optional strings
FirstTruthy(a, b, c) == IF IsTruthyText(a) THEN a ELSE IF IsTruthyText(b) THEN b ELSE c

\* lines 436-437: trimmed and without the fences
stripContent(content) ==
    The({StripFences(unfenced) :
            unfenced \in {The({StripJsonFences(trimmed) : trimmed \in {trim(content)}})}})

\* lines 439-446: from the first { to the last }, or the throw when a brace
\* is missing
extractJson(stripped) ==
    The({IF firstBrace = -1 \/ lastBrace = -1 THEN Thrown(msgNoJson)
         ELSE Returned(substring(stripped, firstBrace, lastBrace + 1)) :
            firstBrace \in {indexOf(stripped, "{")}, lastBrace \in {lastIndexOf(stripped, "}")}})

\* lines 447-453
repairJson(json) ==
    The({CollapseWhitespace(d) :
            d \in {The({ReplaceControls(c) :
                            c \in {The({RemoveCommaBefore(b, "]") :
                                            b \in {RemoveCommaBefore(json, "}")}})}})}})

\* lines 436-453: the repaired text, or the throw when a brace is missing
cleanContent(content) ==
    The({IF ~json.ok THEN json ELSE The({Returned(repairJson(j)) : j \in {json.value}}) :
            json \in {The({extractJson(stripped) : stripped \in {stripContent(content)}})}})

\* lines 455-462: the interventions of the parsed text, or the throw
parseInterventions(text) ==
    The({IF parsed = None THEN Thrown(msgSyntaxError)
         ELSE The({IF IsFalsyValue(found) \/ HasLengthZero(Val(found))
                   THEN Thrown(msgNoInterventions)
                   ELSE Returned(Val(found)) :
                      found \in {Get(Val(parsed), <<"interventions">>)}}) :
            parsed \in {JSONparse(text)}})

\* the try block of generateGeminiRecommendations after the HTTP call
geminiTry(outcome) ==
    IF outcome.kind # "ok" THEN Thrown(AxiosMessage(outcome))
    ELSE IF outcome.data = None THEN Thrown(msgTypeError)
    ELSE LET data == Val(outcome.data)
             hasCandidate == data.candidates # None /\ Val(data.candidates) # <<>>
             candidate == Val(data.candidates)[1]
             finishReason == IF hasCandidate /\ candidate.finishReason # None
                             THEN Val(candidate.finishReason) ELSE "UNKNOWN"
             fromCandidate == IF hasCandidate
                              THEN FirstTruthy(candidate.partsText, candidate.text, candidate.output)
                              ELSE None
             content == IF ~IsTruthyText(fromCandidate) /\ IsTruthyText(data.text)
                        THEN data.text ELSE fromCandidate
         IN  IF data.blockReason # None THEN Thrown(msgBlocked)
             ELSE IF ~IsTruthyText(content) THEN Thrown(msgEmpty)
             ELSE The({IF ~clean.ok THEN clean ELSE parseInterventions(clean.value) :
                          clean \in {cleanContent(Val(content))}})

----------------------------------------------------------------------------
(* Model texts *)

Q(w) == <<"\"", w, "\"">>
Item(title) == <<"{">> \o Q("title") \o <<":">> \o Q(title) \o <<"}">>

RECURSIVE Items(_)
Items(n) == IF n = 0 THEN <<>> ELSE IF n = 1 THEN Item("T") ELSE Item("T") \o <<",", " ">> \o Items(n - 1)

InterventionsJson(n) ==
    <<"{">> \o Q("interventions") \o <<":", " ", "[">> \o Items(n) \o <<"]", "}">>

----------------------------------------------------------------------------
(* Scoring child processes *)

\* the 'close' listener of runPythonAnalysis / runPythonOptimization: the
\* promise resolves with the parsed output on exit code 0 and with null on a
\* parse error or any other code (a signal gives the code null)
onClose(c) ==
    IF c.code = Some(0)
    THEN IF c.output.valid THEN c.output.value ELSE None
    ELSE None

\* a || d on an optional value
Default(o, d) == IF o # None THEN Val(o) ELSE d

\* lines 615-622
scientificAnalysis(pa) ==
    IF pa # None
    THEN Some([meteorological_impact |-> Default(Val(pa).meteorological_analysis, "{}"),
               pollution_sources     |-> Default(Val(pa).pollution_sources, "[]"),
               aqi_analysis          |-> Default(Val(pa).aqi_analysis, "{}")])
    ELSE None

\* pythonOptimization?.optimization_summary || null
optimizationSummary(po) == IF po # None THEN Val(po).optimization_summary ELSE None

\* lines 624-649
response(crd, reading, w, ctx, pa, po, ivs) ==
    [location_analysis |->
        [city |-> IF reading.city # None THEN reading.city ELSE crd.city,
         aqi |-> reading.aqi,
         main_pollutant |-> reading.main_pollutant,
         pollutant_concentrations |-> reading.pollutants,
         temperature |-> w.temperature,
         feels_like |-> w.feels_like,
         humidity |-> w.humidity,
         wind_speed |-> w.wind_speed,
         pressure |-> w.pressure,
         visibility |-> w.visibility,
         weather_description |-> w.description,
         area_type |-> ctx.area_type,
         traffic_density |-> ctx.traffic_density,
         industrial_activity |-> ctx.industrial_activity,
         data_source |-> reading.source,
         data_accuracy |-> reading.accuracy],
     scientific_analysis |-> scientificAnalysis(pa),
     interventions |-> ivs,
     optimization_summary |-> optimizationSummary(po)]

\* the catch of the handler, lines 653-666
catchStatus(message) ==
    IF Includes(message, txt_Location_not_found) \/ Includes(message, txt_Unable_to_verify_location)
    THEN 400 ELSE 500

----------------------------------------------------------------------------
(* Inputs: credentials, request bodies, provider answers *)

MaxTier == 6
MaxItems == 7

KeySets == [iqair : BOOLEAN, openweather : BOOLEAN, gemini : BOOLEAN]

loc_ConnaughtPlace == <<"C","o","n","n","a","u","g","h","t"," ","P","l","a","c","e",","," ","N","e","w"," ","D","e","l","h","i">>
loc_IndustrialGurgaon == <<"I","n","d","u","s","t","r","i","a","l"," ","A","r","e","a",","," ","G","u","r","g","a","o","n">>
loc_Pune == <<"P","u","n","e">>

Locations ==
    {Undefined, Str(<<>>), Str(loc_ConnaughtPlace), Str(loc_IndustrialGurgaon), Str(loc_Pune)}

Budgets ==
    {Undefined, Num(0), Str(<<>>), Num(200000), Num(300000), Num(500000),
     Str(<<"a","b","c">>)}

\* budgets around every minimum cost of the static table
UnitBudgets ==
    {Num(n) : n \in {-1, 1, 74999, 75000, 99999, 100000, 149999, 150000, 200000, 249999,
                     250000, 299999, 300000, 399999, 400000, 1000000}}
    \cup {Str(<<"a","b","c">>), Str(<<"3","5","0","0","0","0">>),
          Str(<<"3",",","5","0",",","0","0","0">>), Str(<<" ","4","0","0","0","0","0"," ","I","N","R">>)}

Place == [lat |-> 28, lon |-> 77, name |-> Some("New Delhi"), state |-> Some("Delhi"),
          country |-> Some("IN")]

GeocoderOutcomes ==
    {NetworkError, HttpError(401), Ok(None), Ok(Some(<<>>)), Ok(Some(<<Place>>))}

Pollution(aqius) ==
    [aqius |-> aqius, mainus |-> Some("p2"), p2 |-> Some(35), p1 |-> Some(0), o3 |-> None,
     n2 |-> Some(12), s2 |-> None, co |-> Some(4)]

IQAirPayload(pollution) ==
    [data |-> Some([current |-> Some([pollution |-> pollution]), city |-> Some("Delhi")])]

AllIQAirOutcomes ==
    {NetworkError, HttpError(401), HttpError(429),
     Ok([data |-> None]),
     Ok([data |-> Some([current |-> None, city |-> Some("Delhi")])]),
     Ok(IQAirPayload(None))}
    \cup {Ok(IQAirPayload(Some(Pollution(a)))) : a \in {None, Some(0), Some(42), Some(180), Some(320)}}

IQAirOutcomes ==
    {NetworkError, Ok(IQAirPayload(Some(Pollution(None)))), Ok(IQAirPayload(Some(Pollution(Some(180)))))}

Components ==
    [pm2_5 |-> Some(40), pm10 |-> Some(80), o3 |-> Some(0), no2 |-> None, so2 |-> Some(3),
     co |-> Some(300)]

AirPollutionEntry(tier) == [main |-> Some([aqi |-> tier]), components |-> Some(Components)]

AllOpenWeatherOutcomes ==
    {NetworkError, HttpError(401), HttpError(429),
     Ok([list |-> None]),
     Ok([list |-> Some(<<>>)]),
     Ok([list |-> Some(<<[main |-> None, components |-> Some(Components)]>>)]),
     Ok([list |-> Some(<<[main |-> Some([aqi |-> Some(2)]), components |-> None]>>)]),
     Ok([list |-> Some(<<AirPollutionEntry(None)>>)])}
    \cup {Ok([list |-> Some(<<AirPollutionEntry(Some(t))>>)]) : t \in 0..MaxTier}

OpenWeatherOutcomes ==
    {HttpError(401), Ok([list |-> Some(<<AirPollutionEntry(Some(5))>>)])}

WeatherPayload(temp, visibility, cloudsAll) ==
    [main |-> Some([temp |-> temp, feels_like |-> Some(301), humidity |-> Some(60),
                    pressure |-> Some(1009)]),
     wind |-> Some([speed |-> Some(25)]),
     weather |-> Some(<<[description |-> Some("haze")]>>),
     visibility |-> visibility,
     clouds |-> Some([all |-> cloudsAll])]

AllWeatherOutcomes ==
    {NetworkError, HttpError(401), HttpError(429),
     Ok([WeatherPayload(Some(276), Some(5000), Some(40)) EXCEPT !.main = None]),
     Ok([WeatherPayload(Some(276), Some(5000), Some(40)) EXCEPT !.wind = None]),
     Ok([WeatherPayload(Some(276), Some(5000), Some(40)) EXCEPT !.weather = None]),
     Ok([WeatherPayload(Some(276), Some(5000), Some(40)) EXCEPT !.weather = Some(<<>>)]),
     Ok([WeatherPayload(Some(276), Some(5000), Some(40)) EXCEPT !.clouds = None]),
     Ok(WeatherPayload(Some(276), Some(5000), Some(40))),
     Ok(WeatherPayload(Some(-14), Some(5000), Some(40))),
     Ok(WeatherPayload(None, Some(5000), Some(40))),
     Ok(WeatherPayload(Some(276), None, Some(40))),
     Ok(WeatherPayload(Some(276), Some(5000), None))}

WeatherOutcomes ==
    {NetworkError, Ok(WeatherPayload(Some(276), Some(5000), Some(40))),
     Ok(WeatherPayload(Some(276), None, Some(40)))}

\* how a spawn ends: the child runs and will exit, runs and never exits, fails
\* to start with an 'error' event, or spawn itself throws
SpawnOutcomes == {"running", "hung", "errorEvent", "throws"}

AnalysisValue ==
    [meteorological_analysis |-> Some("met"), pollution_sources |-> None,
     aqi_analysis |-> Some("aqi")]

AnalysisCloses ==
    {[code |-> Some(1), output |-> [valid |-> FALSE, value |-> None]],
     [code |-> None, output |-> [valid |-> FALSE, value |-> None]],
     [code |-> Some(0), output |-> [valid |-> FALSE, value |-> None]],
     [code |-> Some(0), output |-> [valid |-> TRUE, value |-> None]],
     [code |-> Some(0), output |-> [valid |-> TRUE, value |-> Some(AnalysisValue)]]}

OptimizationCloses ==
    {[code |-> Some(1), output |-> [valid |-> TRUE, value |-> Some([optimization_summary |-> Some("plan")])]],
     [code |-> Some(0), output |-> [valid |-> FALSE, value |-> None]],
     [code |-> Some(0), output |-> [valid |-> TRUE, value |-> Some([optimization_summary |-> None])]],
     [code |-> Some(0), output |-> [valid |-> TRUE, value |-> Some([optimization_summary |-> Some("plan")])]]}

Candidate(finishReason, text) ==
    [finishReason |-> finishReason, partsText |-> text, text |-> None, output |-> None]

Envelope(candidates) == [blockReason |-> None, candidates |-> candidates, text |-> None]

Answer(finishReason, text) == Ok(Some(Envelope(Some(<<Candidate(Some(finishReason), Some(text))>>))))

txtFenced(n) == <<Fence, "json", "\n">> \o InterventionsJson(n) \o <<"\n", Fence>>

txtFencedTrailingComma ==
    <<Fence, "json", "\n", "{">> \o Q("interventions") \o <<":", " ", "[">> \o Item("T")
      \o <<"]", ",", "\n", "}", "\n", Fence>>

txtProse == <<"Sorry", " ", "no", " ", "answer">>

txtWithProse == <<"Here", " ", "it", " ", "is", ":", "\n">> \o InterventionsJson(5) \o <<"\n", "Done">>

txtTruncated ==
    <<"{">> \o Q("interventions") \o <<":", " ", "[">> \o Item("T") \o <<",", " ", "{">>
      \o Q("title") \o <<":", "\"", "Sma">>

txtNewlineInString ==
    <<"{">> \o Q("interventions") \o <<":", " ", "[", "{">> \o Q("title")
      \o <<":", "\"", "Green", "\n", "Buffer", "\"", "}", "]", "}">>

txtNoInterventions == <<"{">> \o Q("recommendations") \o <<":", " ", "[">> \o Item("T") \o <<"]", "}">>

txtNumber == <<"{">> \o Q("interventions") \o <<":", " ", "5", "}">>

txtNull == <<"{">> \o Q("interventions") \o <<":", " ", "null", "}">>

txtString == <<"{">> \o Q("interventions") \o <<":", " ">> \o Q("none") \o <<"}">>

GeminiTexts ==
    {InterventionsJson(n) : n \in 0..MaxItems}
    \cup {txtFenced(5), txtFencedTrailingComma, txtProse, txtWithProse, txtTruncated,
          txtNewlineInString, txtNoInterventions, txtNumber, txtNull, txtString}

GeminiFailures ==
    {NetworkError, HttpError(400), HttpError(429), HttpError(503), Ok(None),
     Ok(Some([Envelope(None) EXCEPT !.blockReason = Some("SAFETY")])),
     Ok(Some(Envelope(None))),
     Ok(Some(Envelope(Some(<<>>)))),
     Ok(Some(Envelope(Some(<<Candidate(Some("SAFETY"), None)>>)))),
     Ok(Some(Envelope(Some(<<Candidate(Some("MAX_TOKENS"), None)>>)))),
     Ok(Some(Envelope(Some(<<Candidate(None, Some(<<>>))>>))))}

AllGeminiOutcomes ==
    GeminiFailures
    \cup {Answer("STOP", t) : t \in GeminiTexts}
    \cup {Answer("MAX_TOKENS", t) : t \in {InterventionsJson(5), txtTruncated}}
    \cup {Ok(Some([Envelope(Some(<<>>)) EXCEPT !.text = Some(InterventionsJson(5))])),
          Ok(Some(Envelope(Some(<<[Candidate(Some("STOP"), None) EXCEPT
                                     !.text = Some(InterventionsJson(5))]>>)))),
          Ok(Some(Envelope(Some(<<[Candidate(None, None) EXCEPT
                                     !.output = Some(InterventionsJson(5))]>>))))}

GeminiOutcomes ==
    {HttpError(503), Ok(Some(Envelope(Some(<<>>)))),
     Answer("STOP", InterventionsJson(5)), Answer("STOP", txtFenced(5)), Answer("STOP", txtProse),
     Answer("STOP", txtNumber), Answer("MAX_TOKENS", InterventionsJson(5)),
     Answer("MAX_TOKENS", txtTruncated)}

\* generateGeminiRecommendations: the catch answers every throw of the try
\* block with the static fallback
generateGeminiRecommendations(reading, budget, ctx, outcome) ==
    The({IF tried.ok THEN tried
         ELSE Returned(getFallbackRecommendations(reading.aqi, budget, reading.main_pollutant, ctx)) :
            tried \in {geminiTry(outcome)}})

----------------------------------------------------------------------------
(* The handler of POST /api/analyze, one action per stretch of code between *)
(* two awaits.  obs keeps the answers of the calls of the current stage,    *)
(* calls counts the outbound calls of the request, res is the sequence of   *)
(* responses sent.                                                          *)

NoObs == [geocoder |-> None, iqair |-> None, openweather |-> None, weather |-> None,
          spawn |-> None, close |-> None, gemini |-> None]

NoCalls == [geocoder |-> 0, iqair |-> 0, openweather |-> 0, weather |-> 0,
            analysis |-> 0, optimization |-> 0, gemini |-> 0]

Called(c, who) == [c EXCEPT ![who] = @ + 1]

msgSpawn == <<"s","p","a","w","n"," ","p","y","t","h","o","n"," ","E","2","B","I","G">>

\* the request as it arrives: nothing fetched, nothing sent
Fresh(k, b, at) ==
    /\ keys = k
    /\ body = b
    /\ pc = at
    /\ coords = None
    /\ aqiData = None
    /\ weather = None
    /\ context = None
    /\ child = "none"
    /\ pythonAnalysis = None
    /\ pythonOptimization = None
    /\ interventions = None
    /\ res = <<>>
    /\ obs = NoObs
    /\ calls = NoCalls
    /\ attempt = 0
    /\ delay = 0
    /\ waits = <<>>
    /\ answers = <<>>
    /\ parked = None

Init ==
    \E k \in KeySets, l \in Locations, b \in Budgets :
        Fresh(k, [location |-> l, budget |-> b], "Validating")

\* an exception reaches the catch of the handler
HandlerCatch(message) ==
    /\ res' = Append(res, IF catchStatus(message) = 400
                          THEN [status |-> 400, error |-> message]
                          ELSE [status |-> 500, error |-> "Unable to complete analysis",
                                message |-> message])
    /\ pc' = "Done"

\* the validation that tests the location only
Validate_locationOnly ==
    /\ pc = "Validating"
    /\ IF Falsy(body.location)
       THEN /\ res' = Append(res, [status |-> 400, error |-> "Missing required parameters: location and budget"])
            /\ pc' = "Done"
       ELSE /\ pc' = "Geocoding"
            /\ res' = res
    /\ UNCHANGED loop
    /\ UNCHANGED parked
    /\ UNCHANGED <<keys, body, coords, aqiData, weather, context, child, pythonAnalysis,
                   pythonOptimization, interventions, obs, calls>>

\* lines 589-599
Validate ==
    /\ pc = "Validating"
    /\ IF Falsy(body.location) \/ Falsy(body.budget)
       THEN /\ res' = Append(res, [status |-> 400, error |-> "Missing required parameters: location and budget"])
            /\ pc' = "Done"
       ELSE /\ pc' = "Geocoding"
            /\ res' = res
    /\ UNCHANGED loop
    /\ UNCHANGED parked
    /\ UNCHANGED <<keys, body, coords, aqiData, weather, context, child, pythonAnalysis,
                   pythonOptimization, interventions, obs, calls>>

\* a handler that asks the geocoder a second time after a failed request
Geocode_again(o) ==
    /\ pc = "Geocoding"
    /\ obs' = [NoObs EXCEPT !.geocoder = IF keys.openweather THEN Some(o) ELSE None]
    /\ calls' = IF keys.openweather THEN Called(calls, "geocoder") ELSE calls
    /\ LET r == getCoordinates(body.location.v, keys.openweather, o)
       IN  IF r.ok
           THEN /\ coords' = Some(r.value)
                /\ pc' = "IQAir"
                /\ res' = res
           ELSE IF calls.geocoder = 0 /\ keys.openweather
                THEN /\ pc' = "Geocoding"
                     /\ res' = res
                     /\ coords' = coords
                ELSE /\ HandlerCatch(r.message)
                     /\ coords' = coords
    /\ UNCHANGED loop
    /\ UNCHANGED parked
    /\ UNCHANGED <<keys, body, aqiData, weather, context, child, pythonAnalysis,
                   pythonOptimization, interventions>>

\* line 599, getCoordinates resolves or rejects; line 602 starts the chain
Geocode(o) ==
    /\ pc = "Geocoding"
    /\ obs' = [NoObs EXCEPT !.geocoder = IF keys.openweather THEN Some(o) ELSE None]
    /\ calls' = IF keys.openweather THEN Called(calls, "geocoder") ELSE calls
    /\ LET r == getCoordinates(body.location.v, keys.openweather, o)
       IN  IF r.ok
           THEN /\ coords' = Some(r.value)
                /\ pc' = "IQAir"
                /\ res' = res
           ELSE /\ HandlerCatch(r.message)
                /\ coords' = coords
    /\ UNCHANGED loop
    /\ UNCHANGED parked
    /\ UNCHANGED <<keys, body, aqiData, weather, context, child, pythonAnalysis,
                   pythonOptimization, interventions>>

\* a chain that asks the secondary provider whatever the primary answered
IQAirStep_thenSecondary(o) ==
    /\ pc = "IQAir"
    /\ obs' = [NoObs EXCEPT !.iqair = IF keys.iqair THEN Some(o) ELSE None]
    /\ calls' = IF keys.iqair THEN Called(calls, "iqair") ELSE calls
    /\ aqiData' = aqiData
    /\ pc' = "OpenWeatherAQI"
    /\ res' = res
    /\ UNCHANGED loop
    /\ UNCHANGED parked
    /\ UNCHANGED <<keys, body, coords, weather, context, child, pythonAnalysis,
                   pythonOptimization, interventions>>

\* getAccurateAQI lines 95-101: the primary provider has answered
IQAirStep(o) ==
    /\ pc = "IQAir"
    /\ obs' = [NoObs EXCEPT !.iqair = IF keys.iqair THEN Some(o) ELSE None]
    /\ calls' = IF keys.iqair THEN Called(calls, "iqair") ELSE calls
    /\ LET r == getIQAirData(keys.iqair, o)
       IN  IF ~r.ok
           THEN HandlerCatch(r.message) /\ aqiData' = aqiData
           ELSE IF r.value # None
           THEN aqiData' = r.value /\ pc' = "Weather" /\ res' = res
           ELSE aqiData' = aqiData /\ pc' = "OpenWeatherAQI" /\ res' = res
    /\ UNCHANGED loop
    /\ UNCHANGED parked
    /\ UNCHANGED <<keys, body, coords, weather, context, child, pythonAnalysis,
                   pythonOptimization, interventions>>

\* getAccurateAQI lines 101-112: the secondary provider has answered
OpenWeatherAQIStep(o) ==
    /\ pc = "OpenWeatherAQI"
    /\ obs' = [obs EXCEPT !.openweather = IF keys.openweather THEN Some(o) ELSE None]
    /\ calls' = IF keys.openweather THEN Called(calls, "openweather") ELSE calls
    /\ LET r == getOpenWeatherAQI(keys.openweather, o)
       IN  IF ~r.ok
           THEN HandlerCatch(r.message) /\ aqiData' = aqiData
           ELSE IF r.value # None
           THEN aqiData' = r.value /\ pc' = "Weather" /\ res' = res
           ELSE aqiData' = Some(EstimatedReading) /\ pc' = "Weather" /\ res' = res
    /\ UNCHANGED loop
    /\ UNCHANGED parked
    /\ UNCHANGED <<keys, body, coords, weather, context, child, pythonAnalysis,
                   pythonOptimization, interventions>>

\* lines 603-606: the weather has answered, the context is classified and the
\* analysis child is spawned
WeatherStep(o, sp) ==
    /\ pc = "Weather"
    /\ obs' = [NoObs EXCEPT !.weather = IF keys.openweather THEN Some(o) ELSE None,
                            !.spawn = Some(sp)]
    /\ calls' = Called(IF keys.openweather THEN Called(calls, "weather") ELSE calls, "analysis")
    /\ LET r == getWeatherData(keys.openweather, o)
       IN  IF ~r.ok
           THEN HandlerCatch(r.message) /\ UNCHANGED <<weather, context, child>>
           ELSE /\ weather' = Some(r.value)
                /\ context' = Some(analyzeLocationContext(body.location.v))
                /\ IF sp = "throws"
                   THEN HandlerCatch(msgSpawn) /\ child' = child
                   ELSE child' = sp /\ pc' = "PythonAnalysis" /\ res' = res
    /\ UNCHANGED loop
    /\ UNCHANGED parked
    /\ UNCHANGED <<keys, body, coords, aqiData, pythonAnalysis, pythonOptimization,
                   interventions>>

\* lines 252-265 and 607-611: the analysis child has closed, the optimization
\* child is spawned
AnalysisClose(c, sp) ==
    /\ pc = "PythonAnalysis"
    /\ child = "running"
    /\ obs' = [NoObs EXCEPT !.close = Some(c), !.spawn = Some(sp)]
    /\ calls' = Called(calls, "optimization")
    /\ pythonAnalysis' = onClose(c)
    /\ IF sp = "throws"
       THEN HandlerCatch(msgSpawn) /\ child' = "none"
       ELSE child' = sp /\ pc' = "PythonOptimization" /\ res' = res
    /\ UNCHANGED loop
    /\ UNCHANGED parked
    /\ UNCHANGED <<keys, body, coords, aqiData, weather, context, pythonOptimization,
                   interventions>>

\* lines 297-310 and 613: the optimization child has closed, the model is called
OptimizationClose(c) ==
    /\ pc = "PythonOptimization"
    /\ child = "running"
    /\ obs' = [NoObs EXCEPT !.close = Some(c)]
    /\ calls' = Called(calls, "gemini")
    /\ pythonOptimization' = onClose(c)
    /\ child' = "none"
    /\ pc' = "Gemini"
    /\ UNCHANGED loop
    /\ UNCHANGED parked
    /\ UNCHANGED <<keys, body, coords, aqiData, weather, context, pythonAnalysis,
                   interventions, res>>

\* a child that failed to start emits 'error'; no listener is registered, so
\* the event is thrown as an uncaught exception and the server process ends
ChildErrorEvent ==
    /\ pc \in {"PythonAnalysis", "PythonOptimization"}
    /\ child = "errorEvent"
    /\ pc' = "Crashed"
    /\ child' = "none"
    /\ UNCHANGED loop
    /\ UNCHANGED parked
    /\ UNCHANGED <<keys, body, coords, aqiData, weather, context, pythonAnalysis,
                   pythonOptimization, interventions, res, obs, calls>>

\* lines 613-651: the model has answered, the response is assembled and sent;
\* without a key the request carries key=undefined and cannot succeed
GeminiStep(o) ==
    /\ pc = "Gemini"
    /\ keys.gemini \/ o.kind # "ok"
    /\ obs' = [NoObs EXCEPT !.gemini = Some(o)]
    /\ LET r == generateGeminiRecommendations(Val(aqiData), body.budget, Val(context), o)
       IN  IF ~r.ok
           THEN HandlerCatch(r.message) /\ interventions' = interventions
           ELSE /\ interventions' = Some(r.value)
                /\ res' = Append(res, [status |-> 200,
                                       body |-> response(Val(coords), Val(aqiData), Val(weather),
                                                         Val(context), pythonAnalysis,
                                                         pythonOptimization, r.value)])
                /\ pc' = "Done"
    /\ UNCHANGED loop
    /\ UNCHANGED parked
    /\ UNCHANGED <<keys, body, coords, aqiData, weather, context, child, pythonAnalysis,
                   pythonOptimization, calls>>

Next ==
    \/ Validate
    \/ \E o \in GeocoderOutcomes : Geocode(o)
    \/ \E o \in IQAirOutcomes : IQAirStep(o)
    \/ \E o \in OpenWeatherOutcomes : OpenWeatherAQIStep(o)
    \/ \E o \in WeatherOutcomes, sp \in SpawnOutcomes : WeatherStep(o, sp)
    \/ \E c \in AnalysisCloses, sp \in SpawnOutcomes : AnalysisClose(c, sp)
    \/ \E c \in OptimizationCloses : OptimizationClose(c)
    \/ ChildErrorEvent
    \/ \E o \in GeminiOutcomes : GeminiStep(o)

Spec == Init /\ [][Next]_vars

\* the same handler with its scheduling: a step that can be taken (an answer
\* that has arrived, a child that has exited) is eventually taken by the
\* event loop; a child that never exits enables no step
FairSpec == Spec /\ WF_vars(Next)

----------------------------------------------------------------------------
(* The request up to the end of the air-quality source chain, with every    *)
(* outcome of the two providers.                                             *)

NextAQI ==
    \/ Validate
    \/ \E o \in GeocoderOutcomes : Geocode(o)
    \/ \E o \in AllIQAirOutcomes : IQAirStep(o)
    \/ \E o \in AllOpenWeatherOutcomes : OpenWeatherAQIStep(o)

SpecAQI == Init /\ [][NextAQI]_vars

----------------------------------------------------------------------------
(* The request with every answer of the generative model and budgets around *)
(* every minimum cost of the static table; the children start and exit.     *)

InitGemini ==
    \E k \in KeySets, l \in Locations, b \in Budgets \cup UnitBudgets :
        Fresh(k, [location |-> l, budget |-> b], "Validating")

ReadingOutcomes ==
    {NetworkError}
    \cup {Ok(IQAirPayload(Some(Pollution(a)))) : a \in {None, Some(180)}}

\* an exit with code 0 and a parsed output
CleanExits(closes) == {c \in closes : c.code = Some(0) /\ c.output.value # None}

NextGemini ==
    \/ Validate
    \/ \E o \in GeocoderOutcomes : Geocode(o)
    \/ \E o \in ReadingOutcomes : IQAirStep(o)
    \/ \E o \in OpenWeatherOutcomes : OpenWeatherAQIStep(o)
    \/ WeatherStep(NetworkError, "running")
    \/ \E c \in CleanExits(AnalysisCloses) : AnalysisClose(c, "running")
    \/ \E c \in CleanExits(OptimizationCloses) : OptimizationClose(c)
    \/ \E o \in AllGeminiOutcomes : GeminiStep(o)

SpecGemini == InitGemini /\ [][NextGemini]_vars

----------------------------------------------------------------------------
(* Properties of the handler as a whole *)

\* C1: a request with a valid body whose location the geocoder resolved ends
\* with exactly one response, and that response is HTTP 200, whatever the
\* providers, the children and the model do.
C1_ResolvedRequestAnswers200 ==
    (coords # None /\ pc \in {"Done", "Crashed"}) => (Len(res) = 1 /\ res[1].status = 200)

\* C2: once a request is past geocoding, a response is eventually sent.
C2_RespondsOncePastGeocoding == (coords # None) ~> (res # <<>>)

----------------------------------------------------------------------------
(* Properties of the air-quality source chain *)

\* C3: for every pair of provider outcomes the chain ends with exactly one
\* reading from one of its three sources and no exception reaches the handler:
\* past geocoding no error response exists, and the reading is there exactly
\* when the chain has ended.
C3_ChainReturnsOneReading ==
    coords # None =>
        /\ res = <<>>
        /\ pc \in {"IQAir", "OpenWeatherAQI", "Weather"}
        /\ (pc = "Weather") = (aqiData # None)
        /\ aqiData # None => Val(aqiData).source \in {"IQAir", "OpenWeather", "Estimated"}

\* C3 witness: the primary provider answered 429, the secondary answered with
\* a payload that has no list, and the chain still ended with a reading.
C3_Witness ==
    /\ pc = "Weather"
    /\ obs.iqair = Some(HttpError(429))
    /\ obs.openweather = Some(Ok([list |-> None]))
    /\ aqiData # None
    /\ res = <<>>

\* C4: when the primary provider answers with a payload that has its pollution
\* block, the reading of the chain is tagged IQAir / High and the secondary
\* provider is not consulted.
C4_PrimarySuccessTaggedIQAir ==
    LET o == Val(obs.iqair)
        succeeded ==
            /\ obs.iqair # None
            /\ o.kind = "ok"
            /\ o.data.data # None
            /\ Val(o.data.data).current # None
            /\ Val(Val(o.data.data).current).pollution # None
    IN  (pc = "Weather" /\ succeeded) =>
            /\ aqiData # None
            /\ Val(aqiData).source = "IQAir"
            /\ Val(aqiData).accuracy = "High"
            /\ obs.openweather = None

\* C4 witness: the primary provider succeeded with index 180 while the
\* secondary provider's credential is present.
C4_Witness ==
    /\ pc = "Weather"
    /\ keys.openweather
    /\ obs.iqair = Some(Ok(IQAirPayload(Some(Pollution(Some(180))))))
    /\ Val(aqiData).aqi = Some(180)
    /\ Val(aqiData).source = "IQAir"

\* C5: when the primary provider gives no reading and the secondary answers
\* with tier t in 1..5, the index is 50, 100, 150, 200, 300 for t = 1..5 and
\* the reading is tagged OpenWeather / Moderate.
C5_SecondaryTierTable ==
    LET o == Val(obs.openweather)
        entry == Val(o.data.list)[1]
        answered ==
            /\ obs.openweather # None
            /\ o.kind = "ok"
            /\ o.data.list # None
            /\ Val(o.data.list) # <<>>
            /\ entry.main # None
            /\ entry.components # None
            /\ Val(entry.main).aqi # None
            /\ Val(Val(entry.main).aqi) \in 1..5
    IN  (pc = "Weather" /\ answered) =>
            /\ aqiData # None
            /\ Val(aqiData).aqi = Some(<<50, 100, 150, 200, 300>>[Val(Val(entry.main).aqi)])
            /\ Val(aqiData).source = "OpenWeather"
            /\ Val(aqiData).accuracy = "Moderate"

\* C5 witness: the primary provider failed with a network error and the
\* secondary answered tier 5, which gives index 300.
C5_Witness ==
    /\ pc = "Weather"
    /\ obs.iqair = Some(NetworkError)
    /\ obs.openweather = Some(Ok([list |-> Some(<<AirPollutionEntry(Some(5))>>)]))
    /\ Val(aqiData).aqi = Some(300)

\* C6: when neither provider gives a reading (no credential, an error, or a
\* payload without the levels the code reads), the chain returns index 150
\* tagged Estimated / Low without pollutant detail.
C6_BothFailGivesEstimate ==
    LET p == Val(obs.iqair)
        primaryFailed ==
            \/ obs.iqair = None
            \/ p.kind # "ok"
            \/ p.data.data = None
            \/ Val(p.data.data).current = None
            \/ Val(Val(p.data.data).current).pollution = None
        s == Val(obs.openweather)
        secondaryFailed ==
            /\ obs.openweather # None
            /\ \/ s.kind # "ok"
               \/ s.data.list = None
               \/ Val(s.data.list) = <<>>
               \/ Val(s.data.list)[1].main = None
               \/ Val(s.data.list)[1].components = None
    IN  (pc = "Weather" /\ primaryFailed /\ secondaryFailed) =>
            /\ aqiData # None
            /\ Val(aqiData).aqi = Some(150)
            /\ Val(aqiData).source = "Estimated"
            /\ Val(aqiData).accuracy = "Low"
            /\ Val(aqiData).pollutants = None
            /\ Val(aqiData).main_pollutant = None

\* C6 witness: no primary credential and the secondary answered 401.
C6_Witness ==
    /\ pc = "Weather"
    /\ ~keys.iqair
    /\ obs.iqair = None
    /\ obs.openweather = Some(HttpError(401))
    /\ Val(aqiData).source = "Estimated"

\* C7: every reading the chain returns has a defined number as its index.
C7_IndexAlwaysPresent == aqiData # None => IsNumber(Val(aqiData).aqi)

----------------------------------------------------------------------------
(* Properties of the recommendation generator *)

\* C8: whatever the model call gives, the generator returns a list of
\* interventions and no exception reaches the handler: the request ends with
\* HTTP 200 and the interventions are an array.
C8_GeneratorReturnsList ==
    (pc = "Done" /\ obs.gemini # None) =>
        /\ res[Len(res)].status = 200
        /\ interventions # None
        /\ Val(interventions).t = "arr"

\* C9: when the model declines (safety block, no candidate, finish reason
\* MAX_TOKENS) or its text cannot be parsed, the interventions returned are
\* those of the static fallback table for the request.
C9_DeclinedGivesFallback ==
    LET o == Val(obs.gemini)
        data == Val(o.data)
        noCandidate == data.candidates = None \/ Val(data.candidates) = <<>>
        candidate == Val(data.candidates)[1]
        declined ==
            \/ data.blockReason # None
            \/ noCandidate
            \/ candidate.finishReason = Some("MAX_TOKENS")
        unparseable ==
            /\ ~noCandidate
            /\ IsTruthyText(candidate.partsText)
            /\ \/ ~cleanContent(Val(candidate.partsText)).ok
               \/ JSONparse(cleanContent(Val(candidate.partsText)).value) = None
    IN  (pc = "Done" /\ obs.gemini # None /\ o.kind = "ok" /\ o.data # None
            /\ (declined \/ unparseable)) =>
            interventions = Some(getFallbackRecommendations(Val(aqiData).aqi, body.budget,
                                                            Val(aqiData).main_pollutant,
                                                            Val(context)))

C11_FourToSixInterventions ==
    (pc = "Done" /\ interventions # None /\ Val(interventions).t = "arr") =>
        Len(Val(interventions).v) \in 4..6

-----------------------------------------------------------------------------
(* The standalone analysis server: POST /api/analyze asks the generative
   provider directly, in a retry loop *)

retries == 3

msgNoContent == <<"N","o"," ","c","o","n","t","e","n","t"," ","i","n"," ","r","e","s","p","o","n","s","e">>
msgBodyLimit == <<"R","e","q","u","e","s","t"," ","b","o","d","y"," ","l","a","r","g","e","r"," ","t","h","a","n"," ","m","a","x","B","o","d","y","L","e","n","g","t","h"," ","l","i","m","i","t">>
msgOverloaded == <<"T","h","e"," ","m","o","d","e","l"," ","i","s"," ","o","v","e","r","l","o","a","d","e","d">>
msgQuota == <<"q","u","o","t","a"," ","e","x","c","e","e","d","e","d">>
txt_overloaded == <<"o","v","e","r","l","o","a","d","e","d">>
txt_quota == <<"q","u","o","t","a">>
txt_limit == <<"l","i","m","i","t">>

\* s.replace(/\n?(fence)$/, ''): a fence that ends the text goes, with the
\* newline before it
DropClosingFence(s) ==
    IF Len(s) > 0 /\ s[Len(s)] = Fence
    THEN IF Len(s) > 1 /\ s[Len(s) - 1] = "\n" THEN SubSeq(s, 1, Len(s) - 2)
         ELSE SubSeq(s, 1, Len(s) - 1)
    ELSE s

\* s without its first n elements, and without the newline that follows them
DropOpening(s, n) ==
    IF Len(s) > n /\ s[n + 1] = "\n" THEN SubSeq(s, n + 2, Len(s)) ELSE SubSeq(s, n + 1, Len(s))

\* lines 223-229: the trimmed content loses a leading json fence and then a
\* leading bare fence, each time with the fence that ends the text
legacyClean(content) ==
    LET dropJson(s) == IF Len(s) >= 2 /\ s[1] = Fence /\ s[2] = "json"
                       THEN DropClosingFence(DropOpening(s, 2)) ELSE s
        dropFence(s) == IF Len(s) >= 1 /\ s[1] = Fence
                        THEN DropClosingFence(DropOpening(s, 1)) ELSE s
    IN  The({dropFence(t) : t \in {dropJson(u) : u \in {trim(content)}}})

\* cleanContent.match(/\{[\s\S]*\}/): from the first opening brace to the last
\* closing brace after it, None when there is no such pair
matchBraces(s) ==
    The({IF p[1] >= 0 /\ p[2] > p[1] THEN Some(substring(s, p[1], p[2] + 1)) ELSE None :
            p \in {<<indexOf(s, "{"), lastIndexOf(s, "}")>>}})

\* lines 231-255: the parsed content, else the parsed brace match, else nothing
legacyParse(clean) ==
    The({IF whole # None THEN whole
         ELSE The({IF m = None THEN None ELSE JSONparse(Val(m)) : m \in {matchBraces(clean)}}) :
            whole \in {JSONparse(clean)}})

\* an error the provider call raised: its message, and the status of the
\* response it carries, if it carries one
Raised(message, status) == [ok |-> FALSE, message |-> message, status |-> status]

\* lines 188-255, the try block of one attempt: the analysis sent, the parse
\* failure reported, or the error raised
legacyTry(outcome) ==
    IF outcome.kind = "http" THEN Raised(AxiosMessage(outcome), Some(outcome.status))
    ELSE IF outcome.kind = "network" THEN Raised(AxiosMessage(outcome), None)
    ELSE IF outcome.data = None THEN Raised(msgTypeError, None)
    ELSE LET data == Val(outcome.data)
             content == IF data.candidates = None \/ Val(data.candidates) = <<>> THEN None
                        ELSE Val(data.candidates)[1].partsText
         IN  IF ~IsTruthyText(content) THEN Raised(msgNoContent, None)
             ELSE The({The({IF analysis # None
                            THEN Returned([status |-> 200, analysis |-> Val(analysis)])
                            ELSE Returned([status |-> 500, error |-> "Failed to parse AI response",
                                           rawContent |-> clean, parseError |-> msgSyntaxError]) :
                               analysis \in {legacyParse(clean)}}) :
                         clean \in {legacyClean(Val(content))}})

\* lines 260-283: the error is answered by a wait and another attempt
legacyRetries(raised, i) ==
    \/ raised.status = Some(503) /\ i < retries - 1
    \/ /\ \/ Includes(raised.message, txt_overloaded)
          \/ Includes(raised.message, txt_quota)
          \/ Includes(raised.message, txt_limit)
       /\ i < retries - 1

LegacyTexts == {InterventionsJson(5), txtFenced(5), txtWithProse, txtProse, txtTruncated,
                <<Fence, "\n">> \o InterventionsJson(4) \o <<"\n", Fence>>, <<"5">>}

LegacyOutcomes ==
    {HttpError(503), HttpError(429), HttpError(400), NetworkError, NetworkErrorWith(msgBodyLimit),
     NetworkErrorWith(msgOverloaded), NetworkErrorWith(msgQuota), Ok(None),
     Ok(Some(Envelope(None))), Ok(Some(Envelope(Some(<<>>)))),
     Ok(Some(Envelope(Some(<<Candidate(Some("SAFETY"), None)>>)))),
     Ok(Some(Envelope(Some(<<Candidate(Some("STOP"), Some(<<>>))>>))))}
    \cup {Answer("STOP", t) : t \in LegacyTexts}

LegacyInit ==
    \E k \in KeySets, l \in Locations, b \in Budgets :
        Fresh(k, [location |-> l, budget |-> b], "LegacyEntry")

\* lines 110-172: without the key the request is answered at once; with it
\* the loop starts
LegacyEntry ==
    /\ pc = "LegacyEntry"
    /\ IF ~keys.gemini
       THEN /\ res' = Append(res, [status |-> 500, error |-> "Gemini API key not configured"])
            /\ pc' = "Done"
            /\ UNCHANGED <<attempt, delay>>
       ELSE /\ attempt' = 0
            /\ delay' = 2000
            /\ pc' = "LegacyAttempt"
            /\ res' = res
    /\ UNCHANGED parked
    /\ UNCHANGED <<keys, body, coords, aqiData, weather, context, child, pythonAnalysis,
                   pythonOptimization, interventions, obs, calls, waits, answers>>

\* lines 174-294, one pass of the loop: the provider answers; the handler
\* responds, or sets the timer of the next attempt, or the error reaches the
\* outer catch
LegacyAttempt(o) ==
    /\ pc = "LegacyAttempt"
    /\ attempt < retries
    /\ calls' = Called(calls, "gemini")
    /\ answers' = Append(answers, o)
    /\ LET r == legacyTry(o)
       IN  IF r.ok
           THEN /\ res' = Append(res, r.value)
                /\ pc' = "Done"
                /\ waits' = waits
           ELSE IF legacyRetries(r, attempt)
           THEN /\ waits' = Append(waits, delay)
                /\ pc' = "LegacyWaiting"
                /\ res' = res
           ELSE /\ res' = Append(res, [status |-> 500, error |-> <<"Gemini AI error: ", r.message>>])
                /\ pc' = "Done"
                /\ waits' = waits
    /\ UNCHANGED parked
    /\ UNCHANGED <<keys, body, coords, aqiData, weather, context, child, pythonAnalysis,
                   pythonOptimization, interventions, obs, attempt, delay>>

\* the loop without the doubling of the delay
LegacyWake_sameDelay ==
    /\ pc = "LegacyWaiting"
    /\ attempt' = attempt + 1
    /\ pc' = "LegacyAttempt"
    /\ UNCHANGED parked
    /\ UNCHANGED <<keys, body, coords, aqiData, weather, context, child, pythonAnalysis,
                   pythonOptimization, interventions, res, obs, calls, waits, answers, delay>>

\* lines 268-270 and 279-281: the timer fires, the delay doubles and the loop
\* goes to its next pass
LegacyWake ==
    /\ pc = "LegacyWaiting"
    /\ delay' = delay * 2
    /\ attempt' = attempt + 1
    /\ pc' = "LegacyAttempt"
    /\ UNCHANGED parked
    /\ UNCHANGED <<keys, body, coords, aqiData, weather, context, child, pythonAnalysis,
                   pythonOptimization, interventions, res, obs, calls, waits, answers>>

LegacyNext ==
    \/ LegacyEntry
    \/ \E o \in LegacyOutcomes : LegacyAttempt(o)
    \/ LegacyWake

SpecLegacy == LegacyInit /\ [][LegacyNext]_vars

-----------------------------------------------------------------------------
(* The retry loop of the standalone analysis server *)

\* an answer of the provider that carries the five interventions as JSON,
\* bare or fenced
FiveInterventionAnswers == {Answer("STOP", InterventionsJson(5)), Answer("STOP", txtFenced(5))}

C13_OverloadEndsInFallback ==
    LET ReportsOverload(o) ==
            /\ o.kind # "ok"
            /\ \/ o.kind = "http" /\ o.status = 503
               \/ Includes(o.message, txt_overloaded)
               \/ Includes(o.message, txt_quota)
               \/ Includes(o.message, txt_limit)
    IN  (/\ pc = "Done"
         /\ answers # <<>>
         /\ \A n \in 1..Len(answers) : ReportsOverload(answers[n])) =>
            /\ Len(answers) <= retries
            /\ Len(res) = 1
            /\ res[1].status = 200
            /\ "error" \notin DOMAIN res[1]

\* C14: an error of the first attempt that is no overload report (a network
\* error, an error status other than 503, a response without content, a
\* safety block, a malformed text) is followed by no further attempt: the
\* provider is called exactly once and the handler responds with
\* recommendations, not with an error.
C14_OtherErrorsGoStraightToFallback ==
    LET OtherErrors ==
            {NetworkError, HttpError(400), Ok(None), Ok(Some(Envelope(Some(<<>>)))),
             Ok(Some(Envelope(Some(<<Candidate(Some("SAFETY"), None)>>)))),
             Answer("STOP", txtProse)}
    IN  (pc = "Done" /\ answers # <<>> /\ answers[1] \in OtherErrors) =>
            /\ Len(answers) = 1
            /\ calls.gemini = 1
            /\ waits = <<>>
            /\ Len(res) = 1
            /\ res[1].status = 200
            /\ "error" \notin DOMAIN res[1]

-----------------------------------------------------------------------------
(* Validation, geocoding, scoring processes, credentials *)

C16_GeocodingFailureAnswers400 ==
    (/\ pc = "Done"
     /\ obs.geocoder # None
     /\ \/ Val(obs.geocoder).kind # "ok"
        \/ Val(obs.geocoder).data \in {None, Some(<<>>)}) =>
        /\ Len(res) = 1
        /\ res[1].status = 400
        /\ "error" \in DOMAIN res[1]

\* C17: a scoring process that exits with a non-zero code, prints no valid
\* JSON or cannot be started makes its field of the response
\* (scientific_analysis, optimization_summary) null, and never makes the
\* request fail: the server keeps running and no error response is sent
\* because of the process.
C17_ChildFailureGivesNullField ==
    /\ pc # "Crashed"
    /\ obs.spawn \in {Some("throws"), Some("errorEvent")} =>
           (res = <<>> \/ res[1].status = 200)
    /\ (pc = "Done" /\ res # <<>> /\ res[1].status = 200) =>
           /\ pythonAnalysis = None => res[1].body.scientific_analysis = None
           /\ pythonOptimization = None => res[1].body.optimization_summary = None

\* C18: an unset credential never surfaces as an error. A request with a
\* location and a budget that is answered without the geocoding and weather
\* key is answered with status 200, and whatever keys are unset, an error
\* response sent after geocoding has another cause than a key (a scoring
\* process that could not be started).
C18_UnsetCredentialNeverAnError ==
    (~Falsy(body.location) /\ ~Falsy(body.budget) /\ pc = "Done") =>
        /\ ~keys.openweather => (Len(res) = 1 /\ res[1].status = 200)
        /\ (coords # None /\ res[1].status # 200) => obs.spawn = Some("throws")

-----------------------------------------------------------------------------
(* getWeatherData called on its own, with and without the key *)

InitWeatherCall ==
    \E k \in KeySets, l \in Locations, b \in Budgets :
        Fresh(k, [location |-> l, budget |-> b], "CallWeather")

\* lines 115-140: one call of getWeatherData; without the key no request is
\* made
getWeatherDataCall(o) ==
    /\ pc = "CallWeather"
    /\ obs' = [NoObs EXCEPT !.weather = IF keys.openweather THEN Some(o) ELSE None]
    /\ calls' = IF keys.openweather THEN Called(calls, "weather") ELSE calls
    /\ LET r == getWeatherData(keys.openweather, o)
       IN  IF r.ok
           THEN weather' = Some(r.value) /\ pc' = "Returned"
           ELSE weather' = weather /\ pc' = "Threw"
    /\ UNCHANGED loop
    /\ UNCHANGED parked
    /\ UNCHANGED <<keys, body, coords, aqiData, context, child, pythonAnalysis,
                   pythonOptimization, interventions, res>>

NextWeatherCall == \E o \in AllWeatherOutcomes : getWeatherDataCall(o)

SpecWeatherCall == InitWeatherCall /\ [][NextWeatherCall]_vars

\* C19: getWeatherData never throws, and it returns exactly the record
\* temperature 28, feels_like 30, humidity 55, wind_speed 8, pressure 1013,
\* description 'clear sky', visibility 10000, clouds 20 when the key is unset,
\* when the request fails, and when the payload lacks a level the code reads.
C19_DefaultWeatherOnAbsenceOrFailure ==
    /\ pc # "Threw"
    /\ (/\ pc = "Returned"
        /\ \/ ~keys.openweather
           \/ Val(obs.weather).kind # "ok"
           \/ Val(obs.weather).data.main = None
           \/ Val(obs.weather).data.wind = None
           \/ Val(obs.weather).data.weather \in {None, Some(<<>>)}
           \/ Val(obs.weather).data.clouds = None) =>
           weather = Some([temperature |-> Some(28), feels_like |-> Some(30),
                           humidity |-> Some(55), wind_speed |-> Some(8),
                           pressure |-> Some(1013), description |-> Some("clear sky"),
                           visibility |-> Some(10000), clouds |-> Some(20)])

C19_Witness ==
    /\ pc = "Returned"
    /\ keys.openweather
    /\ obs.weather = Some(HttpError(429))
    /\ weather # None
    /\ Val(weather).description = Some("clear sky")

\* C20: every reading getWeatherData returns has its eight fields populated,
\* none of them undefined or null, whatever the provider answered, a
\* successful answer without visibility or without clouds.all included.
C20_AllEightFieldsPopulated ==
    (pc = "Returned") =>
        /\ DOMAIN Val(weather) = {"temperature", "feels_like", "humidity", "wind_speed",
                                  "pressure", "description", "visibility", "clouds"}
        /\ \A f \in DOMAIN Val(weather) : Val(weather)[f] # None

-----------------------------------------------------------------------------
(* End-to-end contracts *)

\* C21: the request {location: "Connaught Place, New Delhi", budget: 200000}
\* handled while the geocoder and every other provider is unavailable is
\* answered with status 200, data_source 'Estimated', data_accuracy 'Low', the
\* default weather record and the static interventions that cost at most
\* 200000.
C21_AllProvidersDownStillAnswers200 ==
    (/\ body = [location |-> Str(loc_ConnaughtPlace), budget |-> Num(200000)]
     /\ keys.openweather
     /\ obs.geocoder = Some(NetworkError)
     /\ pc = "Done") =>
        /\ Len(res) = 1
        /\ res[1].status = 200
        /\ res[1].body.location_analysis.data_source = "Estimated"
        /\ res[1].body.location_analysis.data_accuracy = "Low"
        /\ res[1].body.location_analysis.temperature = Some(28)
        /\ res[1].body.location_analysis.humidity = Some(55)
        /\ res[1].body.interventions.t = "arr"
        /\ \A n \in 1..Len(res[1].body.interventions.v) :
               Leq(minCost(res[1].body.interventions.v[n]), Some(200000))

-----------------------------------------------------------------------------
(* Two requests in one server process. The handler is an async function: its
   locals belong to one invocation, and the event loop runs one continuation
   at a time, so between two awaits of one request any number of steps of the
   other may run. The variables hold the locals of the request whose
   continuation runs; parked holds those of the other one. The keys are the
   constants of the module, shared and never written. *)

\* the locals of the running invocation
Locals ==
    [body |-> body,
     pc |-> pc,
     coords |-> coords,
     aqiData |-> aqiData,
     weather |-> weather,
     context |-> context,
     child |-> child,
     pythonAnalysis |-> pythonAnalysis,
     pythonOptimization |-> pythonOptimization,
     interventions |-> interventions,
     res |-> res,
     obs |-> obs,
     calls |-> calls,
     attempt |-> attempt,
     delay |-> delay,
     waits |-> waits,
     answers |-> answers]

\* the locals of an invocation that has just been entered
FreshLocals(b, at) ==
    [body |-> b,
     pc |-> at,
     coords |-> None,
     aqiData |-> None,
     weather |-> None,
     context |-> None,
     child |-> "none",
     pythonAnalysis |-> None,
     pythonOptimization |-> None,
     interventions |-> None,
     res |-> <<>>,
     obs |-> NoObs,
     calls |-> NoCalls,
     attempt |-> 0,
     delay |-> 0,
     waits |-> <<>>,
     answers |-> <<>>]

\* the switch of a handler that keeps the context and the backoff delay in one
\* place for both requests, as variables of the module would be
Switch_sharedContext ==
    /\ parked # None
    /\ pc # "Crashed"
    /\ parked' = Some([Locals EXCEPT !.context = Val(parked).context, !.delay = Val(parked).delay])
    /\ body' = Val(parked).body
    /\ pc' = Val(parked).pc
    /\ coords' = Val(parked).coords
    /\ aqiData' = Val(parked).aqiData
    /\ weather' = Val(parked).weather
    /\ child' = Val(parked).child
    /\ pythonAnalysis' = Val(parked).pythonAnalysis
    /\ pythonOptimization' = Val(parked).pythonOptimization
    /\ interventions' = Val(parked).interventions
    /\ res' = Val(parked).res
    /\ obs' = Val(parked).obs
    /\ calls' = Val(parked).calls
    /\ attempt' = Val(parked).attempt
    /\ waits' = Val(parked).waits
    /\ answers' = Val(parked).answers
    /\ UNCHANGED <<keys, context, delay>>

\* the event loop turns to the continuation of the other request; an uncaught
\* exception has ended the process and nothing runs any more
Switch ==
    /\ parked # None
    /\ pc # "Crashed"
    /\ parked' = Some(Locals)
    /\ body' = Val(parked).body
    /\ pc' = Val(parked).pc
    /\ coords' = Val(parked).coords
    /\ aqiData' = Val(parked).aqiData
    /\ weather' = Val(parked).weather
    /\ context' = Val(parked).context
    /\ child' = Val(parked).child
    /\ pythonAnalysis' = Val(parked).pythonAnalysis
    /\ pythonOptimization' = Val(parked).pythonOptimization
    /\ interventions' = Val(parked).interventions
    /\ res' = Val(parked).res
    /\ obs' = Val(parked).obs
    /\ calls' = Val(parked).calls
    /\ attempt' = Val(parked).attempt
    /\ delay' = Val(parked).delay
    /\ waits' = Val(parked).waits
    /\ answers' = Val(parked).answers
    /\ UNCHANGED <<keys>>

PairBodies ==
    <<[location |-> Str(loc_Pune), budget |-> Num(200000)],
      [location |-> Str(loc_IndustrialGurgaon), budget |-> Num(500000)]>>

PairInit ==
    \E at \in {"Validating", "LegacyEntry"}, k \in {ks \in KeySets : ks.openweather /\ ks.gemini} :
        /\ keys = k
        /\ parked = Some(FreshLocals(PairBodies[2], at))
        /\ body = FreshLocals(PairBodies[1], at).body
        /\ pc = FreshLocals(PairBodies[1], at).pc
        /\ coords = FreshLocals(PairBodies[1], at).coords
        /\ aqiData = FreshLocals(PairBodies[1], at).aqiData
        /\ weather = FreshLocals(PairBodies[1], at).weather
        /\ context = FreshLocals(PairBodies[1], at).context
        /\ child = FreshLocals(PairBodies[1], at).child
        /\ pythonAnalysis = FreshLocals(PairBodies[1], at).pythonAnalysis
        /\ pythonOptimization = FreshLocals(PairBodies[1], at).pythonOptimization
        /\ interventions = FreshLocals(PairBodies[1], at).interventions
        /\ res = FreshLocals(PairBodies[1], at).res
        /\ obs = FreshLocals(PairBodies[1], at).obs
        /\ calls = FreshLocals(PairBodies[1], at).calls
        /\ attempt = FreshLocals(PairBodies[1], at).attempt
        /\ delay = FreshLocals(PairBodies[1], at).delay
        /\ waits = FreshLocals(PairBodies[1], at).waits
        /\ answers = FreshLocals(PairBodies[1], at).answers

NextPair ==
    \/ Switch
    \/ Validate
    \/ \E o \in {NetworkError, Ok(Some(<<Place>>))} : Geocode(o)
    \/ \E o \in {NetworkError, Ok(IQAirPayload(Some(Pollution(Some(180)))))} : IQAirStep(o)
    \/ \E o \in OpenWeatherOutcomes : OpenWeatherAQIStep(o)
    \/ \E o \in {NetworkError, Ok(WeatherPayload(Some(276), Some(5000), Some(40)))},
          sp \in {"running", "errorEvent"} : WeatherStep(o, sp)
    \/ \E c \in {c \in AnalysisCloses : c.code = Some(1) \/ c.output.value # None} :
           AnalysisClose(c, "running")
    \/ \E c \in CleanExits(OptimizationCloses) : OptimizationClose(c)
    \/ ChildErrorEvent
    \/ \E o \in {HttpError(503), Answer("STOP", InterventionsJson(5))} : GeminiStep(o)
    \/ LegacyEntry
    \/ \E o \in {HttpError(503), NetworkError, Answer("STOP", InterventionsJson(5))} : LegacyAttempt(o)
    \/ LegacyWake

SpecPair == PairInit /\ [][NextPair]_vars

\* what a request's own body and own answers determine of its locals q: the
\* context is that of its location, the interventions are those of its
\* reading, its budget and the answer its model call got, the response is
\* assembled from its own values, and the retry loop has counted and waited
\* by its own attempts
OwnOnly(q) ==
    /\ Len(q.res) <= 1
    /\ q.context # None => Val(q.context) = analyzeLocationContext(q.body.location.v)
    /\ (q.pc = "Done" /\ q.interventions # None) =>
           /\ q.interventions =
                  Some(generateGeminiRecommendations(Val(q.aqiData), q.body.budget,
                           analyzeLocationContext(q.body.location.v), Val(q.obs.gemini)).value)
           /\ q.res = <<[status |-> 200,
                         body |-> response(Val(q.coords), Val(q.aqiData), Val(q.weather),
                                           analyzeLocationContext(q.body.location.v),
                                           q.pythonAnalysis, q.pythonOptimization,
                                           Val(q.interventions))]>>
    /\ q.pc \in {"LegacyAttempt", "LegacyWaiting"} =>
           /\ q.delay = 2000 * 2 ^ q.attempt
           /\ Len(q.waits) = q.attempt + (IF q.pc = "LegacyWaiting" THEN 1 ELSE 0)
    /\ \A n \in 1..Len(q.waits) : q.waits[n] = 2000 * 2 ^ (n - 1)
    /\ q.answers # <<>> => Len(q.answers) = q.calls.gemini

-----------------------------------------------------------------------------
(* analyzeLocationContext called on its own, on locations made of words *)

MaxWords == 2

LocationWords ==
    {<<"C","o","n","n","a","u","g","h","t">>,
     <<"C","O","M","M","E","R","C","I","A","L">>,
     <<"M","a","r","k","e","t">>,
     <<"I","n","d","u","s","t","r","i","a","l">>,
     <<"F","A","C","T","O","R","Y">>,
     <<"P","a","r","k">>,
     <<"g","a","r","d","e","n">>,
     <<"D","e","l","h","i">>,
     <<"M","U","M","B","A","I">>,
     <<"B","a","n","g","a","l","o","r","e">>,
     <<"G","u","r","g","a","o","n">>,
     <<"R","a","j","p","a","t","h">>,
     <<"R","i","n","g">>,
     <<"R","o","a","d">>,
     <<"H","i","g","h","w","a","y">>,
     <<"C","E","N","T","R","A","L">>,
     <<"P","u","n","e">>,
     <<"S","e","c","t","o","r">>,
     <<"P","a","r","k","i","n","g">>,
     <<"N","a","g","a","r">>}

\* the locations of n words, separated by one space
RECURSIVE LocationsOf(_)
LocationsOf(n) ==
    IF n = 1 THEN LocationWords
    ELSE {l \o <<" ">> \o w : l \in LocationsOf(n - 1), w \in LocationWords}

ContextLocations == UNION {LocationsOf(n) : n \in 1..MaxWords}

InitContextCall ==
    \E l \in ContextLocations, k \in {ks \in KeySets : ks.iqair /\ ks.openweather /\ ks.gemini} :
        Fresh(k, [location |-> Str(l), budget |-> Num(200000)], "CallContext")

\* lines 187-219: one call of analyzeLocationContext
analyzeLocationContextCall ==
    /\ pc = "CallContext"
    /\ context' = Some(analyzeLocationContext(body.location.v))
    /\ pc' = "Classified"
    /\ UNCHANGED loop
    /\ UNCHANGED parked
    /\ UNCHANGED <<keys, body, coords, aqiData, weather, child, pythonAnalysis,
                   pythonOptimization, interventions, res, obs, calls>>

NextContextCall == analyzeLocationContextCall

SpecContextCall == InitContextCall /\ [][NextContextCall]_vars

\* C23: a location in which, letter case apart, none of the fifteen keywords
\* of the classifier occurs is classified as area_type 'Urban Residential',
\* traffic_density 'Moderate', industrial_activity 'Low'.
C23_NoKeywordGivesDefaultTriple ==
    LET Keywords == {<<"c","o","n","n","a","u","g","h","t">>,
                     <<"c","o","m","m","e","r","c","i","a","l">>,
                     <<"m","a","r","k","e","t">>,
                     <<"i","n","d","u","s","t","r","i","a","l">>,
                     <<"f","a","c","t","o","r","y">>,
                     <<"p","a","r","k">>,
                     <<"g","a","r","d","e","n">>,
                     <<"r","a","j","p","a","t","h">>,
                     <<"r","i","n","g"," ","r","o","a","d">>,
                     <<"h","i","g","h","w","a","y">>,
                     <<"c","e","n","t","r","a","l">>,
                     <<"d","e","l","h","i">>,
                     <<"m","u","m","b","a","i">>,
                     <<"b","a","n","g","a","l","o","r","e">>,
                     <<"g","u","r","g","a","o","n">>}
        lower == toLowerCase(body.location.v)
    IN  (pc = "Classified" /\ \A kw \in Keywords : ~Includes(lower, kw)) =>
            context = Some([area_type |-> "Urban Residential",
                            traffic_density |-> "Moderate",
                            industrial_activity |-> "Low"])

C23_Witness ==
    /\ pc = "Classified"
    /\ body.location.v = <<"P","u","n","e"," ","S","e","c","t","o","r">>
    /\ Val(context).area_type = "Urban Residential"
    /\ Val(context).traffic_density = "Moderate"
    /\ Val(context).industrial_activity = "Low"

\* C24: a location in which 'industrial' or 'factory' occurs, in lower case,
\* capitalised or in upper case, has industrial_activity 'High', also when a
\* city keyword ('delhi', 'gurgaon') occurs in it.
C24_IndustrialKeywordGivesHigh ==
    LET Spellings == {<<"i","n","d","u","s","t","r","i","a","l">>,
                      <<"I","n","d","u","s","t","r","i","a","l">>,
                      <<"I","N","D","U","S","T","R","I","A","L">>,
                      <<"f","a","c","t","o","r","y">>,
                      <<"F","a","c","t","o","r","y">>,
                      <<"F","A","C","T","O","R","Y">>}
    IN  (pc = "Classified" /\ \E w \in Spellings : Includes(body.location.v, w)) =>
            Val(context).industrial_activity = "High"

C24_Witness ==
    /\ pc = "Classified"
    /\ body.location.v = <<"F","A","C","T","O","R","Y"," ","G","u","r","g","a","o","n">>
    /\ Val(context).industrial_activity = "High"

-----------------------------------------------------------------------------
(* The recovery of the model text, applied to fenced texts with one trailing
   comma *)

\* one intervention with the title given as characters; extra is what stands
\* before its closing brace
RecoveryItem(title, extra) ==
    <<"{">> \o Q("title") \o <<":", "\"">> \o title \o <<"\"">> \o extra \o <<"}">>

\* the object with n interventions; the one at index place, or the object
\* itself when place = 0, has extra before its closing brace
RecoveryObject(title, n, place, extra) ==
    LET items == [i \in 1..n |-> RecoveryItem(title, IF place = i THEN extra ELSE <<>>)]
        joined == IF n = 1 THEN items[1] ELSE items[1] \o <<",", " ">> \o items[2]
    IN  <<"{">> \o Q("interventions") \o <<":", " ", "[">> \o joined \o <<"]">>
          \o (IF place = 0 THEN extra ELSE <<>>) \o <<"}">>

RecoveryTitles == {<<"T">>, <<"Green", " ", "Buffer">>, <<"Green", ".", " ", " ", "Buffer">>}

\* title, number of interventions, place of the comma, what follows the
\* comma, what precedes the closing fence
RecoveryParams ==
    {p \in RecoveryTitles \X (1..2) \X (0..2) \X {<<>>, <<" ">>, <<"\n">>, <<"\n", " ">>} \X {<<>>, <<"\n">>} :
        p[3] <= p[2]}

\* the text in its json fence, with the trailing comma
Wrapped(p) ==
    <<Fence, "json", "\n">> \o RecoveryObject(p[1], p[2], p[3], <<",">> \o p[4]) \o p[5] \o <<Fence>>

\* the same text without fence and without the comma
Plain(p) == RecoveryObject(p[1], p[2], p[3], <<>>)

InitRecoveryCall ==
    \E k \in {ks \in KeySets : ks.iqair /\ ks.openweather /\ ks.gemini} :
        Fresh(k, [location |-> Str(loc_Pune), budget |-> Num(200000)], "CallRecovery")

\* lines 401-462: the try block of generateGeminiRecommendations on the answer
\* of the model
geminiTryCall(o) ==
    /\ pc = "CallRecovery"
    /\ obs' = [NoObs EXCEPT !.gemini = Some(o)]
    /\ LET r == geminiTry(o)
       IN  IF r.ok
           THEN interventions' = Some(r.value) /\ pc' = "Recovered"
           ELSE interventions' = interventions /\ pc' = "Threw"
    /\ UNCHANGED loop
    /\ UNCHANGED parked
    /\ UNCHANGED <<keys, body, coords, aqiData, weather, context, child, pythonAnalysis,
                   pythonOptimization, res, calls>>

NextRecoveryCall ==
    \E p \in RecoveryParams : geminiTryCall(Answer("STOP", Wrapped(p)))

SpecRecoveryCall == InitRecoveryCall /\ [][NextRecoveryCall]_vars

\* C25: a model text in a json fence with a single trailing comma before a
\* closing brace is recovered and parsed to the same interventions as the
\* text without the fence and without the comma.
C25_RecoveryEqualsCorrectedText ==
    \A p \in RecoveryParams :
        (pc # "CallRecovery" /\ obs.gemini = Some(Answer("STOP", Wrapped(p)))) =>
            /\ pc = "Recovered"
            /\ interventions = Get(Val(JSONparse(Plain(p))), <<"interventions">>)

-----------------------------------------------------------------------------
(* Order of the steps of one request *)

\* C26: within one request the primary provider is asked at most once, the
\* secondary provider is asked at most once and only after the primary attempt
\* has ended without a reading, and the estimate is used only after both have
\* ended without a reading.
C26_ChainIsStrictPriority ==
    LET p == Val(obs.iqair)
        primaryEndedWithout ==
            \/ obs.iqair = None /\ ~keys.iqair
            \/ /\ obs.iqair # None
               /\ \/ p.kind # "ok"
                  \/ p.data.data = None
                  \/ Val(p.data.data).current = None
                  \/ Val(Val(p.data.data).current).pollution = None
        tag == IF aqiData = None THEN "none" ELSE Val(aqiData).source
    IN  /\ calls.iqair <= 1
        /\ calls.openweather <= 1
        /\ calls.iqair = 0 /\ keys.iqair => calls.openweather = 0
        /\ (pc = "OpenWeatherAQI" \/ calls.openweather = 1) =>
               /\ primaryEndedWithout
               /\ tag # "IQAir"
        /\ tag = "IQAir" => calls.iqair = 1 /\ calls.openweather = 0
        /\ tag = "OpenWeather" => calls.openweather = 1
        /\ tag = "Estimated" =>
               /\ primaryEndedWithout
               /\ calls.openweather = 1
               /\ obs.openweather # None

C26_Witness ==
    /\ pc = "Weather"
    /\ calls.iqair = 1
    /\ calls.openweather = 1
    /\ obs.iqair = Some(HttpError(429))
    /\ Val(aqiData).source = "OpenWeather"


\* the state of the orchestrator that a position of the handler belongs to
OrchestratorState(p) ==
    CASE p = "Validating" -> 1
      [] p = "Geocoding" -> 2
      [] p \in {"IQAir", "OpenWeatherAQI", "Weather"} -> 3
      [] p \in {"PythonAnalysis", "PythonOptimization"} -> 4
      [] p = "Gemini" -> 5
      [] p = "Done" -> 6
      [] OTHER -> 0

\* the position inside the handler, in program order
ProgramOrder(p) ==
    CASE p = "Validating" -> 1
      [] p = "Geocoding" -> 2
      [] p = "IQAir" -> 3
      [] p = "OpenWeatherAQI" -> 4
      [] p = "Weather" -> 5
      [] p = "PythonAnalysis" -> 6
      [] p = "PythonOptimization" -> 7
      [] p = "Gemini" -> 8
      [] p = "Done" -> 9
      [] OTHER -> 10

\* C27: every step of a request moves forward in program order, into the same
\* or the next orchestrator state, or ends the request; the 400 answers are
\* sent from Validating (missing parameter) and from Geocoding only, every
\* other failure answer is the 500 of the catch, the 200 answer is sent after
\* the recommendations; the geocoder, the weather provider and each of the two
\* children are invoked at most once.
C27_StatesInOrderOnce ==
    [][ /\ calls'.geocoder <= 1
        /\ calls'.weather <= 1
        /\ calls'.analysis <= 1
        /\ calls'.optimization <= 1
        /\ ProgramOrder(pc') >= ProgramOrder(pc)
        /\ pc' # pc =>
             \/ /\ pc' \notin {"Done", "Crashed"}
                /\ OrchestratorState(pc') \in {OrchestratorState(pc), OrchestratorState(pc) + 1}
                /\ res' = res
             \/ /\ pc' = "Crashed"
                /\ res' = res
             \/ /\ pc' = "Done"
                /\ Len(res') = Len(res) + 1
                /\ LET r == res'[Len(res')]
                   IN  CASE r.status = 200 -> pc = "Gemini"
                         [] r.status = 400 ->
                              IF r.error = "Missing required parameters: location and budget"
                              THEN pc = "Validating"
                              ELSE pc = "Geocoding"
                         [] OTHER -> r.status = 500 /\ pc # "Validating"
      ]_vars

C27_Witness ==
    /\ pc = "Done"
    /\ res[1].status = 200
    /\ calls.geocoder = 1
    /\ calls.weather = 1
    /\ calls.analysis = 1
    /\ calls.optimization = 1
    /\ calls.gemini = 1


\* C28: on the lowercased location, a commercial keyword together with an
\* industrial keyword gives area_type 'Commercial Hub', an industrial keyword
\* together with a green keyword gives 'Industrial Zone', a very-high-traffic
\* keyword together with a city keyword gives traffic_density 'Very High',
\* and the classification of a location is the classification of its
\* lowercased form.
C28_FirstGroupWinsOnLowercase ==
    LET lower == toLowerCase(body.location.v)
        Has(kws) == \E kw \in kws : Includes(lower, kw)
        commercial == {<<"c","o","n","n","a","u","g","h","t">>,
                       <<"c","o","m","m","e","r","c","i","a","l">>,
                       <<"m","a","r","k","e","t">>}
        industrial == {<<"i","n","d","u","s","t","r","i","a","l">>,
                       <<"f","a","c","t","o","r","y">>}
        green == {<<"p","a","r","k">>, <<"g","a","r","d","e","n">>}
        veryHigh == {<<"c","o","n","n","a","u","g","h","t">>,
                     <<"r","a","j","p","a","t","h">>,
                     <<"r","i","n","g"," ","r","o","a","d">>,
                     <<"h","i","g","h","w","a","y">>,
                     <<"c","e","n","t","r","a","l">>}
        city == {<<"d","e","l","h","i">>, <<"m","u","m","b","a","i">>,
                 <<"b","a","n","g","a","l","o","r","e">>}
    IN  pc = "Classified" =>
            /\ Has(commercial) /\ Has(industrial) => Val(context).area_type = "Commercial Hub"
            /\ ~Has(commercial) /\ Has(industrial) /\ Has(green) =>
                   Val(context).area_type = "Industrial Zone"
            /\ Has(veryHigh) /\ Has(city) => Val(context).traffic_density = "Very High"
            /\ context = Some(analyzeLocationContext(lower))

C28_Witness ==
    /\ pc = "Classified"
    /\ body.location.v = <<"C","o","n","n","a","u","g","h","t"," ","D","e","l","h","i">>
    /\ Val(context).area_type = "Commercial Hub"
    /\ Val(context).traffic_density = "Very High"
    /\ Val(context).industrial_activity = "Moderate"


\* C29: a request that has ended, by an answer of its handler or by the end of
\* the process, has been sent exactly one response, and no request is ever
\* sent two.
C29_ExactlyOneResponse ==
    /\ Len(res) <= 1
    /\ pc \in {"Done", "Crashed"} => Len(res) = 1


\* C30: the validation step answers 400 'Missing required parameters' and
\* ends the request exactly when the location or the budget is absent, the
\* number 0 or the empty string; with any other budget, the string 'abc'
\* included, it sends nothing and the request goes on to Geocoding.
C30_ValidationRejectsExactlyFalsy ==
    [][ pc = "Validating" /\ pc' # pc =>
          IF \/ body.location \in {Undefined, Num(0), Str(<<>>)}
             \/ body.budget \in {Undefined, Num(0), Str(<<>>)}
          THEN /\ pc' = "Done"
               /\ res' = <<[status |-> 400,
                            error |-> "Missing required parameters: location and budget"]>>
               /\ calls' = NoCalls
          ELSE /\ pc' = "Geocoding"
               /\ res' = <<>>
      ]_vars

C30_Witness ==
    /\ pc = "Done"
    /\ body.location = Str(loc_Pune)
    /\ body.budget = Num(0)
    /\ res[1].status = 400
    /\ calls = NoCalls

====
